---------------------------- MODULE Spec2Model ----------------------------
(***************************************************************************)
(* libgdbstub: the GDB remote serial protocol stub.                        *)
(*                                                                         *)
(* The model follows src/unnamed/part_000 (the full stub; src/gdb-stub.c   *)
(* holds the same framer and reply builder).  Bytes are the integers       *)
(* 0..255 with their ASCII values, the packet buffer is a sequence of      *)
(* cells, and every C function that can fail or read indeterminate memory  *)
(* is a set-valued operator: it maps a machine record to the set of        *)
(* machine records the call can end in.                                    *)
(***************************************************************************)
EXTENDS Integers, Sequences, FiniteSets, TLC

VARIABLES
    pThis,      \* GDBSTUBCTXINT: the fields of the session context
    inStream,   \* transport: bytes sent by the peer and not yet read
    out,        \* transport: bytes written by the stub so far
    log,        \* history of calls: acks, transport writes, dispatches, adapter calls
    tgtState,   \* target adapter: the run state pfnTgtGetState reports
    pc,         \* "idle": outside GDBStubCtxRun, "run": inside gdbStubCtxRecv's loop
    rcRun,      \* status code the last GDBStubCtxRun returned
    faults,     \* failures the environment may still inject (write, alloc, target)
    nReads,     \* transport reads done so far
    nResets,    \* GDBStubCtxReset calls done so far
    ub,         \* TRUE once the stub read indeterminate memory or wrote outside a block
    wire,       \* transport: all bytes the peer sends in this behaviour
    hx          \* hex codec / reply builder on their own: [pc, B, txt, dec, rc]

vars == <<pThis, inStream, out, log, tgtState, pc, rcRun, faults, nReads, nResets,
          ub, wire, hx>>

-----------------------------------------------------------------------------
(* Bounds of the model *)

\* Items (frames or stray bytes) the peer sends in one behaviour.
MaxItems == 2
\* Transport reads in one behaviour.
MaxReads == 3
\* Failures the environment injects in one behaviour.
MaxFaults == 1
\* GDBStubCtxReset calls in one behaviour.
MaxResets == 1
\* Length of the byte sequences drawn for the hex codec and the reply builder.
MaxHexLen == 2
\* Length of the long reply body beyond 255 bytes.
MaxLongExtra == 1
\* Items a peer sends one at a time in one behaviour.
MaxPeerItems == 2
\* Pieces of packets a peer sends one at a time in one behaviour.
MaxFragItems == 3
\* m packets a peer sends one at a time in one behaviour.
MaxMemItems == 2

\* Packets for optional operations a peer sends in one behaviour.
MaxOptItems == 2

\* qSupported packets a peer sends in one behaviour.
MaxSupItems == 2

\* Reads of the target description a peer sends in one behaviour.
MaxXferItems == 2

\* Frames a peer of the checksum sessions sends.
MaxChkItems == 2

\* Registers of a register table given to the description builder.
MaxXmlRegs == 2

\* Packets a peer of the operand sessions sends.
MaxOperandItems == 2

-----------------------------------------------------------------------------
(* Program constants *)

GDBSTUB_PKT_START == 36
GDBSTUB_PKT_END == 35
GDBSTUB_OOB_INTERRUPT == 3

GDBSTUB_INF_SUCCESS == 0
GDBSTUB_ERR_INVALID_PARAMETER == -1
GDBSTUB_ERR_NO_MEMORY == -2
GDBSTUB_INF_TRY_AGAIN == 3
GDBSTUB_ERR_INTERNAL_ERROR == -4
GDBSTUB_ERR_PEER_DISCONNECTED == -5
GDBSTUB_ERR_NOT_SUPPORTED == -6
GDBSTUB_ERR_PROTOCOL_VIOLATION == -7
GDBSTUB_ERR_BUFFER_OVERFLOW == -8
GDBSTUB_ERR_NOT_FOUND == -9

GDBSTUBCTX_FEATURES_F_TGT_DESC == 1

\* uint8_t arithmetic is modulo U8; U8 itself (no byte value) marks a cell of
\* the packet buffer that was never written.
U8 == 256
Uninit == U8

\* Receive states (GDBSTUBRECVSTATE).
WAIT_FOR_START == "PACKET_WAIT_FOR_START"
RECEIVE_BODY == "PACKET_RECEIVE_BODY"
RECEIVE_CHECKSUM == "PACKET_RECEIVE_CHECKSUM"

\* Target states (GDBSTUBTGTSTATE).
TGTSTATE_INVALID == "INVALID"
TGTSTATE_RUNNING == "RUNNING"
TGTSTATE_STOPPED == "STOPPED"

\* The enumerators' values.
TgtStateCode(enmState) ==
    CASE enmState = TGTSTATE_INVALID -> 0
      [] enmState = TGTSTATE_RUNNING -> 1
      [] enmState = TGTSTATE_STOPPED -> 2

-----------------------------------------------------------------------------
(* Hex digits *)

\* gdbStubCtxChrToHex: 0-9, A-F, a-f to 0..15, anything else to 0xff.
gdbStubCtxChrToHex(ch) ==
    IF ch >= 48 /\ ch <= 57 THEN ch - 48
    ELSE IF ch >= 65 /\ ch <= 70 THEN ch - 65 + 10
    ELSE IF ch >= 97 /\ ch <= 102 THEN ch - 97 + 10
    ELSE 255

\* gdbStubCtxHexToChr: 0..15 to '0'-'9', 'A'-'F', anything else to 'X'.
gdbStubCtxHexToChr(uHex) ==
    IF uHex < 10 THEN 48 + uHex
    ELSE IF uHex <= 15 THEN 65 + uHex - 10
    ELSE 88

\* (hi << 4) | lo of two gdbStubCtxChrToHex results, truncated to uint8_t.
\* A result of 0xff shifts to 0xff0, whose low byte is 0xf0; or-ing 0xff gives 0xff.
HexPairToU8(hi, lo) ==
    LET h == (hi * 16) % U8
    IN  IF lo = 255 THEN 255
        ELSE IF hi = 255 THEN 240 + lo
        ELSE h + lo


-----------------------------------------------------------------------------
(* Byte sequences *)

\* The sum of the bytes of s (halved at each step to keep the evaluation shallow).
RECURSIVE SumBytes(_)
SumBytes(s) ==
    IF Len(s) = 0 THEN 0
    ELSE IF Len(s) = 1 THEN s[1]
    ELSE LET h == Len(s) \div 2
         IN  SumBytes(SubSeq(s, 1, h)) + SumBytes(SubSeq(s, h + 1, Len(s)))

\* The uint8_t accumulator of the checksum loops after uSum += b for every byte
\* of s: every partial sum is cut to eight bits.
RECURSIVE U8Sum(_)
U8Sum(s) ==
    IF Len(s) = 0 THEN 0
    ELSE IF Len(s) = 1 THEN s[1] % U8
    ELSE LET h == Len(s) \div 2
         IN  (U8Sum(SubSeq(s, 1, h)) + U8Sum(SubSeq(s, h + 1, Len(s)))) % U8

\* All sequences over S of length 0..n.
RECURSIVE SeqsUpTo(_, _)
SeqsUpTo(S, n) ==
    IF n = 0 THEN {<<>>}
    ELSE LET R == SeqsUpTo(S, n - 1)
         IN  R \cup {Append(r, x) : r \in {q \in R : Len(q) = n - 1}, x \in S}

Repeat(x, n) == [i \in 1 .. n |-> x]

Min(a, b) == IF a < b THEN a ELSE b

\* gdbStubCtxMemchr on a byte sequence: the offset of the first ch in the first cb
\* bytes of s, or -1 for NULL.
SeqMemchr(s, ch, cb) ==
    LET I == {i \in 1 .. Min(cb, Len(s)) : s[i] = ch}
    IN  IF I = {} THEN -1 ELSE (CHOOSE i \in I : \A j \in I : i <= j) - 1

\* !gdbStubMemcmp(a, b, cb): the first cb bytes of a and b are the same.
gdbStubMemcmpEq(a, b, cb) ==
    /\ cb <= Len(a)
    /\ cb <= Len(b)
    /\ SubSeq(a, 1, cb) = SubSeq(b, 1, cb)

\* The bytes of s from offset off on (the pointer s + off).
From(s, off) == SubSeq(s, off + 1, Len(s))

-----------------------------------------------------------------------------
(* The packet buffer as memory.  pbPktBuf is a sequence of cells; cell i of   *)
(* the C array is element i + 1.  Cells at or beyond cbPktBufMax lie outside  *)
(* the allocated block; a cell holding Uninit was never written.              *)

\* Values a read outside the block or of a never written cell may yield.
JunkBytes == {70, 0}

Stored(T, i) == IF i < Len(T.pbPktBuf) THEN T.pbPktBuf[i + 1] ELSE Uninit

\* The read is defined: inside the block and of a written cell.
Defined(T, i) == i < T.cbPktBufMax /\ Stored(T, i) # Uninit

\* The values *(pbPktBuf + i) can yield.
Rd(T, i) ==
    IF Defined(T, i) THEN {Stored(T, i)}
    ELSE JunkBytes \cup (IF Stored(T, i) # Uninit THEN {Stored(T, i)} ELSE {})

\* buf with cell i set to v (cells between the old end and i are unwritten).
WrCell(buf, i, v) ==
    IF i < Len(buf) THEN [buf EXCEPT ![i + 1] = v]
    ELSE buf \o Repeat(Uninit, i - Len(buf)) \o <<v>>

\* buf with the bytes s stored from cell i on (WrCell for each byte of s in turn).
WrBytes(buf, i, s) ==
    IF s = <<>> THEN buf
    ELSE LET n == IF Len(buf) > i + Len(s) THEN Len(buf) ELSE i + Len(s)
         IN  [j \in 1 .. n |->
                 IF i < j /\ j <= i + Len(s) THEN s[j - i]
                 ELSE IF j <= Len(buf) THEN buf[j] ELSE Uninit]

\* The byte sequences a read of cells a .. b-1 can yield.
RECURSIVE RdRange(_, _, _)
RdRange(T, a, b) ==
    IF a >= b THEN {<<>>}
    ELSE {<<v>> \o r : v \in Rd(T, a), r \in RdRange(T, a + 1, b)}

\* The byte sequences a read of the cells of another block can deliver: a never written cell
\* yields any of JunkBytes.
ObjReads(cells) ==
    LET U == {i \in 1 .. Len(cells) : cells[i] = Uninit}
    IN  IF cells = <<>> THEN {<<>>}
        ELSE {[i \in 1 .. Len(cells) |-> IF i \in U THEN f[i] ELSE cells[i]]
                 : f \in [U -> JunkBytes]}

AllDefined(T, a, b) == \A i \in a .. (b - 1) : Defined(T, i)

\* gdbStubCtxMemchr(&pbPktBuf[a], ch, cb): the set of results, each the index
\* (relative to a) of the first cell read as ch, or -1 for NULL.
MemchrResults(T, a, ch, cb) ==
    {k \in 0 .. (cb - 1) :
        /\ ch \in Rd(T, a + k)
        /\ \A j \in 0 .. (k - 1) : Rd(T, a + j) # {ch}}
    \cup (IF \A j \in 0 .. (cb - 1) : Rd(T, a + j) # {ch} THEN {-1} ELSE {})

\* gdbStubCtxMemmove(pbPktBuf, pbPktBuf + k, cb): cells k .. k+cb-1 copied, in
\* ascending order, to cells 0 .. cb-1; the other cells keep their content.
gdbStubCtxMemmove(buf, k, cb) ==
    LET n == IF Len(buf) > cb THEN Len(buf) ELSE cb
    IN  [i \in 1 .. n |->
            IF i <= cb THEN (IF k + i <= Len(buf) THEN buf[k + i] ELSE Uninit)
            ELSE buf[i]]

-----------------------------------------------------------------------------
(* Machine records.  A machine record m holds what a call chain reads and    *)
(* writes: the context (m.This), the transport output, the call history, the *)
(* target, the remaining failures, the status code of the call (m.rc) and    *)
(* the *pcbProcessed out-parameter of the framer functions.                  *)

Ev(t, b) == [t |-> t, b |-> b]

Logged(m, t, b) == [m EXCEPT !.log = Append(@, Ev(t, b))]

WithRc(m, rc) == [m EXCEPT !.rc = rc]

\* f applied to every machine record of S, the results collected.
Bind(S, f(_)) == UNION {f(m) : m \in S}

\* Continue with f only where the status code is success (if (rc == SUCCESS) ...).
OnSuccess(S, f(_)) ==
    UNION {IF m.rc = GDBSTUB_INF_SUCCESS THEN f(m) ELSE {m} : m \in S}

\* gdbStubCtxIoIfWrite: pfnWrite either writes all the bytes or fails.  t names
\* the caller's purpose in the history ("ack" or "write").
gdbStubCtxIoIfWrite(m, t, bytes) ==
    {[WithRc(Logged(m, t, bytes), GDBSTUB_INF_SUCCESS) EXCEPT !.out = @ \o bytes]}
    \cup (IF m.faults > 0
          THEN {[WithRc(Logged(m, "writefail", bytes), GDBSTUB_ERR_PEER_DISCONNECTED)
                    EXCEPT !.faults = @ - 1]}
          ELSE {})

\* The two checksum characters gdbStubCtxReplySend writes for uChkSum.
ReplyChkSumChars(uChkSum) ==
    <<gdbStubCtxHexToChr(uChkSum \div 16), gdbStubCtxHexToChr(uChkSum % 16)>>

\* gdbStubCtxReplySend with uChkSum wider than eight bits.
gdbStubCtxReplySend_NoWrap(m, pbReplyPkt) ==
    LET uChkSum == SumBytes(pbReplyPkt)
        body(m1) == IF Len(pbReplyPkt) > 0
                    THEN gdbStubCtxIoIfWrite(m1, "write", pbReplyPkt)
                    ELSE {m1}
        end(m2) == gdbStubCtxIoIfWrite(m2, "write", <<GDBSTUB_PKT_END>>)
        chk(m3) == gdbStubCtxIoIfWrite(m3, "write", ReplyChkSumChars(uChkSum))
    IN  OnSuccess(OnSuccess(OnSuccess(
            gdbStubCtxIoIfWrite(m, "write", <<GDBSTUB_PKT_START>>), body), end), chk)

\* gdbStubCtxReplySend: '$', the body (when not empty), '#', two checksum digits,
\* each a transport write, stopping at the first write that fails.
gdbStubCtxReplySend(m, pbReplyPkt) ==
    LET uChkSum == U8Sum(pbReplyPkt)
        body(m1) == IF Len(pbReplyPkt) > 0
                    THEN gdbStubCtxIoIfWrite(m1, "write", pbReplyPkt)
                    ELSE {m1}
        end(m2) == gdbStubCtxIoIfWrite(m2, "write", <<GDBSTUB_PKT_END>>)
        chk(m3) == gdbStubCtxIoIfWrite(m3, "write", ReplyChkSumChars(uChkSum))
    IN  OnSuccess(OnSuccess(OnSuccess(
            gdbStubCtxIoIfWrite(m, "write", <<GDBSTUB_PKT_START>>), body), end), chk)

gdbStubCtxReplySendOk(m) == gdbStubCtxReplySend(m, <<79, 75>>)

gdbStubCtxReplySendErr(m, uErr) ==
    gdbStubCtxReplySend(m, <<69, gdbStubCtxHexToChr(uErr \div 16),
                                 gdbStubCtxHexToChr(uErr % 16)>>)

gdbStubCtxReplySendSigTrap(m) == gdbStubCtxReplySend(m, <<83, 48, 53>>)

\* (-rc) & 0xff for the status codes of libgdbstub.h.
gdbStubCtxReplySendErrSts(m, rc) == gdbStubCtxReplySendErr(m, (0 - rc) % U8)

\* A read of cells a .. b-1 of the packet buffer is noted when it is not defined.
MarkUb(m, a, b) == [m EXCEPT !.ub = @ \/ ~AllDefined(m.This, a, b)]

\* The handlers of the dispatcher read the cbPkt - 1 cells from &pbPktBuf[2] on.
MarkArgs(m) == MarkUb(m, 2, m.This.cbPkt + 1)

-----------------------------------------------------------------------------
(* Hex codec *)

\* The characters gdbStubCtxEncodeBinaryAsHex stores for the bytes src: two per
\* byte, high nibble first.
HexChars(src) ==
    [k \in 1 .. 2 * Len(src) |->
        IF k % 2 = 1 THEN gdbStubCtxHexToChr(src[(k + 1) \div 2] \div 16)
        ELSE gdbStubCtxHexToChr(src[k \div 2] % 16)]

\* gdbStubCtxEncodeBinaryAsHex with the low nibble stored first.
gdbStubCtxEncodeBinaryAsHex_LowFirst(cbDst, src) ==
    IF Len(src) * 2 > cbDst
    THEN [rc |-> GDBSTUB_ERR_INVALID_PARAMETER, dst |-> <<>>]
    ELSE [rc |-> GDBSTUB_INF_SUCCESS,
          dst |-> [i \in 1 .. 2 * Len(src) |->
                     IF i % 2 = 1 THEN gdbStubCtxHexToChr(src[(i + 1) \div 2] % 16)
                     ELSE gdbStubCtxHexToChr(src[(i + 1) \div 2] \div 16)]]

\* gdbStubCtxEncodeBinaryAsHex(pbDst, cbDst, pvSrc, cbSrc): the status code and the
\* characters stored at pbDst (none when the destination is too small).
gdbStubCtxEncodeBinaryAsHex(cbDst, src) ==
    IF Len(src) * 2 > cbDst
    THEN [rc |-> GDBSTUB_ERR_INVALID_PARAMETER, dst |-> <<>>]
    ELSE [rc |-> GDBSTUB_INF_SUCCESS, dst |-> HexChars(src)]

\* The decode loop of gdbStubCtxParseHexStringAsByteBuf: while (cbBuf && cbDst),
\* one byte from two characters; cbBuf counts down by two.
RECURSIVE HexDecodeLoop(_, _, _)
HexDecodeLoop(buf, cbBuf, cbDst) ==
    IF cbBuf = 0 \/ cbDst = 0 THEN <<>>
    ELSE <<HexPairToU8(gdbStubCtxChrToHex(buf[1]), gdbStubCtxChrToHex(buf[2]))>>
         \o HexDecodeLoop(SubSeq(buf, 3, Len(buf)), cbBuf - 2, cbDst - 1)

\* gdbStubCtxParseHexStringAsByteBuf(pbBuf, cbBuf, pvDst, cbDst, pcbDecoded) for a
\* text of even length: the status code, the bytes stored at pvDst and
\* *pcbDecoded.  (An odd cbBuf below 2 * cbDst is rejected before the loop.)
gdbStubCtxParseHexStringAsByteBuf(buf, cbDst) ==
    LET cbDecode == Min(Len(buf), cbDst * 2)
    IN  IF cbDecode % 2 # 0
        THEN [rc |-> GDBSTUB_ERR_INVALID_PARAMETER, dst |-> <<>>, cbDecoded |-> 0]
        ELSE [rc |-> GDBSTUB_INF_SUCCESS,
              dst |-> HexDecodeLoop(buf, Len(buf), cbDst),
              cbDecoded |-> cbDecode]

-----------------------------------------------------------------------------
(* Target adapter (GDBSTUBIF): the callbacks as the environment.  A call     *)
(* succeeds, or fails with TgtErr while the environment has failures left.   *)

\* GDBSTUBREGTYPE.
GDBSTUBREGTYPE_GP == 1
GDBSTUBREGTYPE_PC == 2
GDBSTUBREGTYPE_STACK_PTR == 3
GDBSTUBREGTYPE_CODE_PTR == 4

\* The register table of the adapter (paRegs): bit widths, and the register
\* file the target holds.
paRegs ==
    <<[pszName |-> <<114, 48>>, cRegBits |-> 8, enmType |-> GDBSTUBREGTYPE_GP],
      [pszName |-> <<112, 99>>, cRegBits |-> 8, enmType |-> GDBSTUBREGTYPE_PC]>>
RegFile == <<31, 160>>

TgtErr == GDBSTUB_ERR_INTERNAL_ERROR

\* The history notes the call, and with a failed call its status code.
TgtCall(m, name, newState) ==
    {[WithRc(Logged(m, name, <<>>), GDBSTUB_INF_SUCCESS) EXCEPT !.tgtState = newState]}
    \cup (IF m.faults > 0
          THEN {[WithRc(Logged(m, name, <<TgtErr>>), TgtErr) EXCEPT !.faults = @ - 1]}
          ELSE {})

gdbStubCtxIfTgtStop(m) == TgtCall(m, "tgtStop", TGTSTATE_STOPPED)
gdbStubCtxIfTgtStep(m) == TgtCall(m, "tgtStep", TGTSTATE_STOPPED)
gdbStubCtxIfTgtContinue(m) == TgtCall(m, "tgtCont", TGTSTATE_RUNNING)

\* A call through a callback pointer the adapter left NULL is undefined: the
\* history notes the call with the letter of the packet that made it, and what
\* comes back, if anything does, is any status.
NullCall(m, ch) ==
    {[WithRc(Logged(m, "nullCall", <<ch>>), rc) EXCEPT !.ub = TRUE]
        : rc \in {GDBSTUB_INF_SUCCESS, GDBSTUB_ERR_INTERNAL_ERROR}}

\* Neither wrapper looks at the pointer before it calls through it.
gdbStubCtxIfTgtRestart(m) ==
    IF m.This.pIf.pfnTgtRestart THEN TgtCall(m, "tgtRestart", TGTSTATE_RUNNING)
    ELSE NullCall(m, 82)
gdbStubCtxIfTgtKill(m) ==
    IF m.This.pIf.pfnTgtKill THEN TgtCall(m, "tgtKill", TGTSTATE_STOPPED)
    ELSE NullCall(m, 107)
\* GDBSTUBTPTYPE.
GDBSTUBTPTYPE_EXEC_SW == 1
GDBSTUBTPTYPE_EXEC_HW == 2
GDBSTUBTPTYPE_MEM_READ == 3
GDBSTUBTPTYPE_MEM_WRITE == 4
GDBSTUBTPTYPE_MEM_ACCESS == 5

\* pfnTgtRegsRead stores the register file in pvRegsScratch.
gdbStubCtxIfTgtRegsRead(m) == TgtCall(m, "tgtRegsRead", m.tgtState)

\* The status codes a failing adapter call returns where the stub tells
\* not-supported from the other failures.
TgtErrs == {GDBSTUB_ERR_INTERNAL_ERROR, GDBSTUB_ERR_NOT_SUPPORTED}

\* An adapter call with arguments: the history notes the arguments, and for a
\* failed call the event "tgtFailed" with the status code after it.
TgtCallArgs(m, name, args) ==
    {WithRc(Logged(m, name, args), GDBSTUB_INF_SUCCESS)}
    \cup (IF m.faults > 0
          THEN {[WithRc(Logged(Logged(m, name, args), "tgtFailed", <<rc>>), rc)
                    EXCEPT !.faults = @ - 1] : rc \in TgtErrs}
          ELSE {})

\* paidxRegs: the index vector GDBStubCtxCreate fills, 0 .. cRegs-1.
paidxRegs == [i \in 1 .. Len(paRegs) |-> i - 1]

gdbStubCtxIfTgtRegsWrite(m, aidxRegs, src) ==
    TgtCallArgs(m, "tgtRegsWrite", <<Len(aidxRegs)>> \o aidxRegs \o src)

\* The tracepoint callbacks are optional: not-supported when the adapter has none.
gdbStubCtxIfTgtTpSet(m, GdbTgtTpAddr, enmTpType) ==
    IF m.This.pIf.pfnTgtTpSet
    THEN TgtCallArgs(m, "tgtTpSet", <<GdbTgtTpAddr, enmTpType>>)
    ELSE {WithRc(m, GDBSTUB_ERR_NOT_SUPPORTED)}

gdbStubCtxIfTgtTpClear(m, GdbTgtTpAddr) ==
    IF m.This.pIf.pfnTgtTpClear
    THEN TgtCallArgs(m, "tgtTpClear", <<GdbTgtTpAddr>>)
    ELSE {WithRc(m, GDBSTUB_ERR_NOT_SUPPORTED)}

-----------------------------------------------------------------------------
(* Packet buffer space *)

\* cbPktBufMax - offPktBuf >= cbSpace in size_t arithmetic: with offPktBuf above
\* cbPktBufMax the difference wraps to a value near 2^64, above every cbSpace.
HasPktBufSpace(T, cbSpace) ==
    \/ T.offPktBuf > T.cbPktBufMax
    \/ T.cbPktBufMax - T.offPktBuf >= cbSpace

\* The first n cells of buf, as memcpy(pvNew, pbPktBuf, n) leaves them in a new block.
CopiedCells(buf, n) == [i \in 1 .. n |-> IF i <= Len(buf) THEN buf[i] ELSE Uninit]

\* The size gdbStubCtxEnsurePktBufSpace asks the allocator for on its slow path.
EnsurePktBufSpace_NewSize(T, cbSpace) == T.cbPktBufMax - T.offPktBuf + cbSpace

\* gdbStubCtxEnsurePktBufSpace: nothing to do when the space is there; otherwise a
\* new block of EnsurePktBufSpace_NewSize bytes, the first offPktBuf bytes copied
\* over, the old block freed.  The allocator may return NULL.
gdbStubCtxEnsurePktBufSpace(m, cbSpace) ==
    LET T == m.This
        cbNew == EnsurePktBufSpace_NewSize(T, cbSpace)
        copied == [T EXCEPT !.pbPktBuf = CopiedCells(T.pbPktBuf, T.offPktBuf),
                            !.cbPktBufMax = cbNew]
        alloc == Logged(m, "alloc", <<cbNew>>)
        nomem == Logged(m, "allocfail", <<cbNew>>)
        freed == IF T.cbPktBufMax > 0 THEN Logged(alloc, "free", <<>>) ELSE alloc
    IN  IF HasPktBufSpace(T, cbSpace)
        THEN {WithRc(m, GDBSTUB_INF_SUCCESS)}
        ELSE {[WithRc(freed, GDBSTUB_INF_SUCCESS)
                  EXCEPT !.This = copied,
                         !.ub = @ \/ T.offPktBuf > cbNew]}
             \cup (IF m.faults > 0
                   THEN {[WithRc(nomem, GDBSTUB_ERR_NO_MEMORY) EXCEPT !.faults = @ - 1]}
                   ELSE {})

-----------------------------------------------------------------------------
(* Command dispatcher *)

\* The bytes between '$' and '#' as the buffer holds them.
PktBody(T) == [i \in 1 .. (T.cbPkt - 1) |-> Stored(T, i)]

\* case 'g': read all registers, hex-encode them at the start of the packet
\* buffer and send them.
PktProcessReadRegs(m) ==
    LET cbReplyPkt == Len(RegFile) * 2
        send(m2) ==
            LET enc == gdbStubCtxEncodeBinaryAsHex(m2.This.cbPktBufMax, RegFile)
            IN  IF enc.rc = GDBSTUB_INF_SUCCESS
                THEN gdbStubCtxReplySend(
                         [m2 EXCEPT !.This.pbPktBuf = WrBytes(@, 0, enc.dst)], enc.dst)
                ELSE gdbStubCtxReplySendErrSts(m2, enc.rc)
        encode(m1) ==
            UNION {IF m2.rc = GDBSTUB_INF_SUCCESS THEN send(m2)
                   ELSE gdbStubCtxReplySendErrSts(m2, m2.rc)
                   : m2 \in gdbStubCtxEnsurePktBufSpace(m1, cbReplyPkt)}
    IN  UNION {IF m1.rc = GDBSTUB_INF_SUCCESS THEN encode(m1)
               ELSE gdbStubCtxReplySendErrSts(m1, m1.rc)
               : m1 \in gdbStubCtxIfTgtRegsRead(m)}

\* The cb cells of the packet buffer from cell off on.
Cells(T, off, cb) == [i \in 1 .. cb |-> Stored(T, off + i - 1)]

\* gdbStubCtxParseHexStringAsInteger on the cells from off on: while (cbBuf &&
\* *pbBuf != chSep) uVal = uVal * 16 + digit.  The result is the value, the cell
\* where the scan stopped (*ppbSep) and whether it ran into a cell that was never
\* written or lies outside the block (the scan is cut there).  A cbBuf below zero
\* stands for a size_t that wrapped: it never counts down to zero.  The status
\* code is always success.  (uVal is a uint64_t; the operands of this model have
\* a few digits.)
RECURSIVE gdbStubCtxParseHexStringAsInteger(_, _, _, _, _)
gdbStubCtxParseHexStringAsInteger(T, off, cbBuf, chSep, uVal) ==
    IF cbBuf = 0 THEN [uVal |-> uVal, offSep |-> off, fUb |-> FALSE]
    ELSE IF ~Defined(T, off) THEN [uVal |-> uVal, offSep |-> off, fUb |-> TRUE]
    ELSE IF Stored(T, off) = chSep THEN [uVal |-> uVal, offSep |-> off, fUb |-> FALSE]
    ELSE gdbStubCtxParseHexStringAsInteger(
             T, off + 1, cbBuf - 1, chSep,
             uVal * 16 + gdbStubCtxChrToHex(Stored(T, off)))

\* A block of a case that declares its own "int rc": what the block stored in it
\* is gone when the block ends, and the rc gdbStubCtxPktProcess returns is still
\* the success it was initialised with.
ShadowedRc(S) == {WithRc(r, GDBSTUB_INF_SUCCESS) : r \in S}

\* Grow the buffer for the hex of src, encode src at its start and send that.
EncodeAndSend(m, src) ==
    LET cbReplyPkt == Len(src) * 2
        send(m2) ==
            LET enc == gdbStubCtxEncodeBinaryAsHex(m2.This.cbPktBufMax, src)
            IN  IF enc.rc = GDBSTUB_INF_SUCCESS
                THEN gdbStubCtxReplySend(
                         [m2 EXCEPT !.This.pbPktBuf = WrBytes(@, 0, enc.dst)], enc.dst)
                ELSE gdbStubCtxReplySendErrSts(m2, enc.rc)
    IN  UNION {IF m2.rc = GDBSTUB_INF_SUCCESS THEN send(m2)
               ELSE gdbStubCtxReplySendErrSts(m2, m2.rc)
               : m2 \in gdbStubCtxEnsurePktBufSpace(m, cbReplyPkt)}

\* The byte the target holds at an address.
TgtMem(GdbTgtAddr) == GdbTgtAddr % U8

\* sizeof(abTmp) in case 'm' and in case 'M'.
cbMemReadChunk == 1024
cbMemWriteChunk == 4096

gdbStubCtxIfTgtMemRead(m, GdbTgtMemAddr, cbRead) ==
    TgtCallArgs(m, "tgtMemRead", <<GdbTgtMemAddr, cbRead>>)

gdbStubCtxIfTgtMemWrite(m, GdbTgtMemAddr, src) ==
    TgtCallArgs(m, "tgtMemWrite", <<GdbTgtMemAddr>> \o src)

\* The while loop of case 'm': a chunk is read from the target and encoded at
\* pbPktBuf (cell offBuf of the packet buffer); then address and cbRead move by
\* the chunk, and so do pbPktBuf and cbPktBufLeft.
RECURSIVE MemReadLoop(_, _, _, _, _)
MemReadLoop(m, GdbTgtAddr, cbRead, offBuf, cbPktBufLeft) ==
    IF cbRead = 0 THEN {WithRc(m, GDBSTUB_INF_SUCCESS)}
    ELSE
    LET cbThisRead == Min(cbRead, cbMemReadChunk)
        abTmp == [i \in 1 .. cbThisRead |-> TgtMem(GdbTgtAddr + i - 1)]
        enc == gdbStubCtxEncodeBinaryAsHex(cbPktBufLeft, abTmp)
    IN  UNION {IF m1.rc # GDBSTUB_INF_SUCCESS THEN {m1}
               ELSE IF enc.rc # GDBSTUB_INF_SUCCESS THEN {WithRc(m1, enc.rc)}
               ELSE MemReadLoop(
                        [m1 EXCEPT !.This.pbPktBuf = WrBytes(@, offBuf, enc.dst)],
                        GdbTgtAddr + cbThisRead, cbRead - cbThisRead,
                        offBuf + cbThisRead, cbPktBufLeft - cbThisRead)
               : m1 \in gdbStubCtxIfTgtMemRead(m, GdbTgtAddr, cbThisRead)}

\* The reply of case 'm': the first cbReplyPkt cells of the packet buffer.  A
\* cell among them that was never written yields one of JunkBytes.
MemReadReply(m, cbReplyPkt) ==
    LET T == m.This
        fDef == AllDefined(T, 0, cbReplyPkt)
    IN  UNION {gdbStubCtxReplySend(
                   [m EXCEPT !.ub = @ \/ ~fDef],
                   [i \in 1 .. cbReplyPkt |->
                       IF Defined(T, i - 1) THEN Stored(T, i - 1) ELSE v])
               : v \in (IF fDef THEN {0} ELSE JunkBytes)}

\* case 'm': read memory.
PktProcessReadMem(m) ==
    LET T == m.This
        addr == gdbStubCtxParseHexStringAsInteger(T, 2, T.cbPkt - 1, 44, 0)
        cbProcessed == addr.offSep - 2
        len == gdbStubCtxParseHexStringAsInteger(
                   T, addr.offSep + 1, T.cbPkt - 1 - cbProcessed - 1, GDBSTUB_PKT_END, 0)
        cbRead == len.uVal
        cbReplyPkt == cbRead * 2
        m0 == [m EXCEPT !.ub = @ \/ addr.fUb \/ len.fUb]
        loop(m1) ==
            UNION {IF m2.rc = GDBSTUB_INF_SUCCESS THEN MemReadReply(m2, cbReplyPkt)
                   ELSE gdbStubCtxReplySendErrSts(m2, m2.rc)
                   : m2 \in MemReadLoop(m1, addr.uVal, cbRead, 0, cbReplyPkt)}
    IN  ShadowedRc(
          UNION {IF m1.rc = GDBSTUB_INF_SUCCESS THEN loop(m1)
                 ELSE gdbStubCtxReplySendErrSts(m1, m1.rc)
                 : m1 \in gdbStubCtxEnsurePktBufSpace(m0, cbReplyPkt)})

\* The while loop of case 'M': up to a chunk of bytes is decoded from the data at
\* cell offData and written to the target; abTmp is on the stack, and what the
\* decoding did not store of its cbThisWrite bytes was never written.
RECURSIVE MemWriteLoop(_, _, _, _, _)
MemWriteLoop(m, GdbTgtAddr, cbWrite, offData, cbDataLeft) ==
    IF cbWrite = 0 THEN {WithRc(m, GDBSTUB_INF_SUCCESS)}
    ELSE
    LET T == m.This
        cbThisWrite == Min(cbWrite, cbMemWriteChunk)
        cbData == IF cbDataLeft < 0 THEN 2 * cbThisWrite ELSE cbDataLeft
        dec == gdbStubCtxParseHexStringAsByteBuf(Cells(T, offData, cbData), cbThisWrite)
        abTmp == dec.dst \o Repeat(Uninit, cbThisWrite - Len(dec.dst))
        m0 == [m EXCEPT !.ub = @ \/ Len(dec.dst) < cbThisWrite
                                 \/ ~AllDefined(T, offData, offData + 2 * Len(dec.dst))]
        next(m1) == IF m1.rc # GDBSTUB_INF_SUCCESS THEN {m1}
                    ELSE MemWriteLoop(m1, GdbTgtAddr + cbThisWrite, cbWrite - cbThisWrite,
                                      offData + dec.cbDecoded, cbDataLeft - dec.cbDecoded)
    IN  IF dec.rc # GDBSTUB_INF_SUCCESS THEN {WithRc(m, dec.rc)}
        ELSE UNION {next(m1) : m1 \in UNION {gdbStubCtxIfTgtMemWrite(m0, GdbTgtAddr, src)
                                             : src \in ObjReads(abTmp)}}

\* case 'M': write memory.
PktProcessWriteMem(m) ==
    LET T == m.This
        addr == gdbStubCtxParseHexStringAsInteger(T, 2, T.cbPkt - 1, 44, 0)
        cbProcessed == addr.offSep - 2
        len == gdbStubCtxParseHexStringAsInteger(
                   T, addr.offSep + 1, T.cbPkt - 1 - cbProcessed - 1, 58, 0)
        cbProcessed2 == len.offSep - 2
        cbDataLeft == T.cbPkt - 1 - cbProcessed2 - 1 - 1
        m0 == [m EXCEPT !.ub = @ \/ addr.fUb \/ len.fUb]
    IN  ShadowedRc(
          UNION {IF m1.rc = GDBSTUB_INF_SUCCESS THEN gdbStubCtxReplySendOk(m1)
                 ELSE gdbStubCtxReplySendErrSts(m1, m1.rc)
                 : m1 \in MemWriteLoop(m0, addr.uVal, len.uVal, len.offSep + 1,
                                       cbDataLeft)})

\* case 'p': read one register and send its hex.
PktProcessReadReg(m) ==
    LET T == m.This
        reg == gdbStubCtxParseHexStringAsInteger(T, 2, T.cbPkt - 1, GDBSTUB_PKT_END, 0)
        idxReg == reg.uVal
        m0 == [m EXCEPT !.ub = @ \/ reg.fUb]
    IN  ShadowedRc(
          IF idxReg < T.cRegs
          THEN UNION {IF m1.rc = GDBSTUB_INF_SUCCESS
                      THEN EncodeAndSend(m1, <<RegFile[idxReg + 1]>>)
                      ELSE gdbStubCtxReplySendErrSts(m1, m1.rc)
                      : m1 \in gdbStubCtxIfTgtRegsRead(m0)}
          ELSE gdbStubCtxReplySendErrSts(m0, GDBSTUB_ERR_PROTOCOL_VIOLATION))

\* The same without the branch for not-supported: every failure becomes E NN.
ReplyForTgtRc_NoEmpty(m1) ==
    IF m1.rc = GDBSTUB_INF_SUCCESS THEN gdbStubCtxReplySendOk(m1)
    ELSE gdbStubCtxReplySendErrSts(m1, m1.rc)

\* What cases 'P', 'Z' and 'z' do with the status code of the adapter call.
ReplyForTgtRc(m1) ==
    IF m1.rc = GDBSTUB_INF_SUCCESS THEN gdbStubCtxReplySendOk(m1)
    ELSE IF m1.rc = GDBSTUB_ERR_NOT_SUPPORTED THEN gdbStubCtxReplySend(m1, <<>>)
    ELSE gdbStubCtxReplySendErrSts(m1, m1.rc)

\* sizeof(u32RegVal) in case 'P'.
cbU32RegVal == 4

\* case 'P': write one register.  The value is decoded into a uint32_t that was
\* set to 0; when the decoding fails nothing is sent.
PktProcessWriteReg(m) ==
    LET T == m.This
        reg == gdbStubCtxParseHexStringAsInteger(T, 2, T.cbPkt - 1, 61, 0)
        idxReg == reg.uVal
        cbProcessed == reg.offSep - 2
        cbVal == T.cbPkt - 1 - cbProcessed - 1
        dec == gdbStubCtxParseHexStringAsByteBuf(
                   Cells(T, reg.offSep + 1,
                         IF cbVal < 0 THEN 2 * cbU32RegVal ELSE cbVal), cbU32RegVal)
        u32RegVal == [i \in 1 .. cbU32RegVal |->
                         IF i <= Len(dec.dst) THEN dec.dst[i] ELSE 0]
        m0 == [m EXCEPT !.ub = @ \/ reg.fUb
                                 \/ ~AllDefined(T, reg.offSep + 1,
                                                reg.offSep + 1 + 2 * Len(dec.dst))]
    IN  ShadowedRc(
          IF idxReg < T.cRegs
          THEN IF dec.rc = GDBSTUB_INF_SUCCESS
               THEN UNION {ReplyForTgtRc(m1)
                           : m1 \in gdbStubCtxIfTgtRegsWrite(m0, <<idxReg>>, u32RegVal)}
               ELSE {WithRc(m0, dec.rc)}
          ELSE gdbStubCtxReplySendErrSts(m0, GDBSTUB_ERR_PROTOCOL_VIOLATION))

\* gdbStubCtxParseTpPktArgs(&pbPktBuf[2], cbPkt - 1, ...): type ',' address ','
\* kind.  cbArgs -= (pbPktSep - pbArgs) - 1 is done twice, both times with the
\* distance from the start of the arguments.
gdbStubCtxParseTpPktArgs(T) ==
    LET pbArgs == 2
        cbArgs0 == T.cbPkt - 1
        type == gdbStubCtxParseHexStringAsInteger(T, pbArgs, cbArgs0, 44, 0)
        cbArgs1 == cbArgs0 - ((type.offSep - pbArgs) - 1)
        addr == gdbStubCtxParseHexStringAsInteger(T, type.offSep + 1, cbArgs1, 44, 0)
        cbArgs2 == cbArgs1 - ((addr.offSep - pbArgs) - 1)
        kind == gdbStubCtxParseHexStringAsInteger(T, addr.offSep + 1, cbArgs2,
                                                  GDBSTUB_PKT_END, 0)
        uType == type.uVal
    IN  [rc |-> IF uType \in 0 .. 4 THEN GDBSTUB_INF_SUCCESS
                ELSE GDBSTUB_ERR_INVALID_PARAMETER,
         enmTpType |-> CASE uType = 0 -> GDBSTUBTPTYPE_EXEC_SW
                         [] uType = 1 -> GDBSTUBTPTYPE_EXEC_HW
                         [] uType = 2 -> GDBSTUBTPTYPE_MEM_WRITE
                         [] uType = 3 -> GDBSTUBTPTYPE_MEM_READ
                         [] uType = 4 -> GDBSTUBTPTYPE_MEM_ACCESS
                         [] OTHER -> 0,
         GdbTgtTpAddr |-> addr.uVal,
         uKind |-> kind.uVal,
         fUb |-> type.fUb \/ addr.fUb \/ kind.fUb]

\* case 'Z': insert a breakpoint/watchpoint.
PktProcessTpSet(m) ==
    LET a == gdbStubCtxParseTpPktArgs(m.This)
        m0 == [m EXCEPT !.ub = @ \/ a.fUb]
    IN  ShadowedRc(
          IF a.rc = GDBSTUB_INF_SUCCESS
          THEN UNION {ReplyForTgtRc(m1)
                      : m1 \in gdbStubCtxIfTgtTpSet(m0, a.GdbTgtTpAddr, a.enmTpType)}
          ELSE gdbStubCtxReplySendErrSts(m0, a.rc))

\* case 'z': remove a breakpoint/watchpoint.
PktProcessTpClear(m) ==
    LET a == gdbStubCtxParseTpPktArgs(m.This)
        m0 == [m EXCEPT !.ub = @ \/ a.fUb]
    IN  ShadowedRc(
          IF a.rc = GDBSTUB_INF_SUCCESS
          THEN UNION {ReplyForTgtRc(m1)
                      : m1 \in gdbStubCtxIfTgtTpClear(m0, a.GdbTgtTpAddr)}
          ELSE gdbStubCtxReplySendErrSts(m0, a.rc))

\* The text of a C string stored in s: the bytes before the first NUL.
CStr(s) ==
    LET z == SeqMemchr(s, 0, Len(s))
    IN  IF z < 0 THEN s ELSE SubSeq(s, 1, z)

\* gdbStubCtxPktProcessQueryTStatus: the reply "T0".
gdbStubCtxPktProcessQueryTStatus(m) == gdbStubCtxReplySend(m, <<84, 48>>)

\* s_aGdbArchMapping[enmArch] for the adapter of the model (GDBSTUBTGTARCH_ARM): "arm".
GdbArchName == <<97, 114, 109>>

\* gdbStubCtxPktProcessFeatXmlRegs(pbVal, cbVal) on the value val: whether it sets
\* GDBSTUBCTX_FEATURES_F_TGT_DESC.  Each entry of the list is compared over
\* MIN(cbVal, cchArch) bytes, cbVal being what is left of the whole value.
RECURSIVE gdbStubCtxPktProcessFeatXmlRegs(_)
gdbStubCtxPktProcessFeatXmlRegs(val) ==
    IF val = <<>> THEN FALSE
    ELSE LET pbDelim == SeqMemchr(val, 44, Len(val))
         IN  IF gdbStubMemcmpEq(val, GdbArchName, Min(Len(val), Len(GdbArchName)))
             THEN TRUE
             ELSE IF pbDelim < 0 THEN FALSE
             ELSE gdbStubCtxPktProcessFeatXmlRegs(From(val, pbDelim + 1))

\* g_aGdbFeatures: the one feature, "xmlRegisters", which takes a value.
GdbFeatName == <<120, 109, 108, 82, 101, 103, 105, 115, 116, 101, 114, 115>>

\* gdbStubCtxQueryPktQueryFeatureLen: the length of the feature at the start of
\* args, up to ';' or '#', and whether '#' ended it.
gdbStubCtxQueryPktQueryFeatureLen(args) ==
    LET I == {i \in 1 .. Len(args) : args[i] = 59 \/ args[i] = GDBSTUB_PKT_END}
        first == CHOOSE i \in I : \A j \in I : i <= j
    IN  IF I = {}
        THEN [rc |-> GDBSTUB_ERR_PROTOCOL_VIOLATION, cbArg |-> 0, fTerminator |-> FALSE]
        ELSE [rc |-> GDBSTUB_INF_SUCCESS, cbArg |-> first - 1,
              fTerminator |-> args[first] = GDBSTUB_PKT_END]

\* The while loop of gdbStubCtxPktProcessQuerySupported over the features in args:
\* the status code it ends with and the feature bits.
RECURSIVE QuerySupportedLoop(_, _)
QuerySupportedLoop(args, fFeatures) ==
    IF args = <<>> THEN [rc |-> GDBSTUB_INF_SUCCESS, fFeatures |-> fFeatures]
    ELSE
    LET fl == gdbStubCtxQueryPktQueryFeatureLen(args)
        cbArg == fl.cbArg
        fFound == /\ cbArg > Len(GdbFeatName)
                  /\ gdbStubMemcmpEq(GdbFeatName, args, Len(GdbFeatName))
        cbVal == cbArg - Len(GdbFeatName)
        fValOk == args[Len(GdbFeatName) + 1] = 61 /\ cbVal > 1
        val == SubSeq(args, Len(GdbFeatName) + 2, cbArg)
        rc == IF fFound /\ ~fValOk THEN GDBSTUB_ERR_PROTOCOL_VIOLATION
              ELSE GDBSTUB_INF_SUCCESS
        fNew == IF fFound /\ fValOk /\ gdbStubCtxPktProcessFeatXmlRegs(val)
                THEN GDBSTUBCTX_FEATURES_F_TGT_DESC ELSE fFeatures
    IN  IF fl.rc # GDBSTUB_INF_SUCCESS THEN [rc |-> fl.rc, fFeatures |-> fFeatures]
        ELSE IF fl.fTerminator \/ rc # GDBSTUB_INF_SUCCESS
        THEN [rc |-> rc, fFeatures |-> fNew]
        ELSE QuerySupportedLoop(From(args, cbArg + 1), fNew)

\* gdbStubCtxPktProcessQuerySupportedReply announcing nothing.
gdbStubCtxPktProcessQuerySupportedReply_Empty(m) == gdbStubCtxReplySend(m, <<>>)

\* gdbStubCtxPktProcessQuerySupportedReply.
gdbStubCtxPktProcessQuerySupportedReply(m) ==
    IF m.This.fFeatures = GDBSTUBCTX_FEATURES_F_TGT_DESC
    THEN gdbStubCtxReplySend(m, <<113, 88, 102, 101, 114, 58, 102, 101, 97, 116, 117, 114, 101, 115, 58, 114, 101, 97, 100, 43>>)
    ELSE gdbStubCtxReplySend(m, <<>>)

\* gdbStubCtxPktProcessQuerySupported(pbArgs, cbArgs): without the ':' it returns
\* the protocol violation at once; otherwise the feature loop, and the reply
\* when the loop ended with success.
gdbStubCtxPktProcessQuerySupported(m, args) ==
    IF Len(args) < 1 \/ args[1] # 58
    THEN {WithRc(m, GDBSTUB_ERR_PROTOCOL_VIOLATION)}
    ELSE LET r == QuerySupportedLoop(Tail(args), m.This.fFeatures)
             m1 == [m EXCEPT !.This.fFeatures = r.fFeatures]
         IN  IF r.rc = GDBSTUB_INF_SUCCESS
             THEN gdbStubCtxPktProcessQuerySupportedReply(m1)
             ELSE {WithRc(m1, r.rc)}

\* The custom commands of the adapter (paCmds): the name and what the callback
\* prints through the output helper.
paCmds == <<[pszCmd |-> <<104>>, out |-> <<>>], [pszCmd |-> <<118>>, out |-> <<49>>]>>

\* gdbStubCtxCmdProcess: the callback runs (the history notes its index in the
\* table, whether it got arguments, and the arguments); OK when it printed
\* nothing, else the hex of what it printed.
gdbStubCtxCmdProcess(m, iCmd, fArgs, pszArgs) ==
    LET called == Logged(m, "cmd", <<iCmd, IF fArgs THEN 1 ELSE 0>> \o pszArgs)
        scratch == paCmds[iCmd].out
        cbPktBuf == Len(scratch) * 2
        send(m2) ==
            LET enc == gdbStubCtxEncodeBinaryAsHex(cbPktBuf, scratch)
            IN  IF enc.rc = GDBSTUB_INF_SUCCESS
                THEN gdbStubCtxReplySend(
                         [m2 EXCEPT !.This.pbPktBuf = WrBytes(@, 0, enc.dst)], enc.dst)
                ELSE gdbStubCtxReplySendErrSts(m2, enc.rc)
        ok == IF scratch = <<>> THEN gdbStubCtxReplySendOk(called)
              ELSE UNION {IF m2.rc = GDBSTUB_INF_SUCCESS THEN send(m2)
                          ELSE gdbStubCtxReplySendErrSts(m2, m2.rc)
                          : m2 \in gdbStubCtxEnsurePktBufSpace(called, cbPktBuf)}
    IN  ok \cup (IF m.faults > 0
                 THEN gdbStubCtxReplySendErrSts(
                          [Logged(called, "tgtFailed", <<TgtErr>>)
                              EXCEPT !.faults = @ - 1], TgtErr)
                 ELSE {})

\* sizeof(szCmd) in gdbStubCtxPktProcessQueryRcmd.
cbSzCmd == 4096

\* The lookup of gdbStubCtxPktProcessQueryRcmd for one content of szCmd (cbDecoded
\* bytes and the NUL): split at the first space, then the table.
RcmdLookup(m, szCmd, cbDecoded) ==
    LET pbDelim == SeqMemchr(szCmd, 32, cbDecoded)
        szName == CStr(IF pbDelim < 0 THEN szCmd ELSE SubSeq(szCmd, 1, pbDelim))
        pszArgs == IF pbDelim < 0 THEN <<>> ELSE CStr(From(szCmd, pbDelim + 1))
        I == {i \in DOMAIN paCmds : paCmds[i].pszCmd = szName}
    IN  IF I = {} THEN gdbStubCtxReplySendErrSts(m, GDBSTUB_ERR_NOT_FOUND)
        ELSE gdbStubCtxCmdProcess(m, CHOOSE i \in I : \A j \in I : i <= j,
                                  pbDelim >= 0, pszArgs)

\* gdbStubCtxPktProcessQueryRcmd(pbArgs, cbArgs): without the ',' it returns the
\* protocol violation at once, and not-found when the adapter has no command
\* table.  The hex is decoded into szCmd, which is on the stack; the NUL goes to
\* szCmd[cbDecoded], cbDecoded being the number of hex characters consumed, so
\* the cells between the decoded bytes and the NUL are never written.
gdbStubCtxPktProcessQueryRcmd(m, args) ==
    IF Len(args) < 1 \/ args[1] # 44
    THEN {WithRc(m, GDBSTUB_ERR_PROTOCOL_VIOLATION)}
    ELSE IF ~m.This.pIf.paCmds
    THEN {WithRc(m, GDBSTUB_ERR_NOT_FOUND)}
    ELSE
    LET cbArgs == Len(args) - 1
        dec == gdbStubCtxParseHexStringAsByteBuf(SubSeq(args, 2, cbArgs), cbSzCmd)
        cells == dec.dst \o Repeat(Uninit, dec.cbDecoded - Len(dec.dst)) \o <<0>>
        m0 == [m EXCEPT !.ub = @ \/ dec.cbDecoded > Len(dec.dst)]
    IN  IF cbArgs \div 2 >= cbSzCmd THEN {WithRc(m, GDBSTUB_ERR_BUFFER_OVERFLOW)}
        ELSE IF dec.rc # GDBSTUB_INF_SUCCESS THEN {WithRc(m, dec.rc)}
        ELSE UNION {RcmdLookup(m0, szCmd, dec.cbDecoded) : szCmd \in ObjReads(cells)}

\* The string constants of gdbStubCtxTgtXmlDescCreate (without their NUL), the
\* core feature name of the architecture (s_aGdbArchFeatMapping[enmArch]) and
\* the annex name.
s_szXmlTgtHdr ==
    <<60, 63, 120, 109, 108, 32, 118, 101, 114, 115, 105, 111, 110, 61, 34, 49, 46, 48,
      34, 63, 62, 10, 60, 33, 68, 79, 67, 84, 89, 80, 69, 32, 116, 97, 114, 103,
      101, 116, 32, 83, 89, 83, 84, 69, 77, 32, 34, 103, 100, 98, 45, 116, 97, 114,
      103, 101, 116, 46, 100, 116, 100, 34, 62, 10, 60, 116, 97, 114, 103, 101,
      116, 32, 118, 101, 114, 115, 105, 111, 110, 61, 34, 49, 46, 48, 34, 62, 10>>
s_szXmlTgtFooter ==
    <<60, 47, 116, 97, 114, 103, 101, 116, 62, 10>>
XmlArchOpen ==
    <<60, 97, 114, 99, 104, 105, 116, 101, 99, 116, 117, 114, 101, 62>>
XmlArchClose ==
    <<60, 47, 97, 114, 99, 104, 105, 116, 101, 99, 116, 117, 114, 101, 62, 10>>
XmlFeatOpen ==
    <<60, 102, 101, 97, 116, 117, 114, 101, 32, 110, 97, 109, 101, 61, 34>>
XmlFeatOpenEnd ==
    <<34, 62, 10>>
XmlFeatClose ==
    <<60, 47, 102, 101, 97, 116, 117, 114, 101, 62, 10>>
XmlRegOpen ==
    <<60, 114, 101, 103, 32, 110, 97, 109, 101, 61, 34>>
XmlRegBits ==
    <<34, 32, 98, 105, 116, 115, 105, 122, 101, 61, 34>>
XmlRegType ==
    <<34, 32, 116, 121, 112, 101, 61, 34>>
XmlRegClose ==
    <<34, 47, 62, 10>>
XmlDataPtr ==
    <<100, 97, 116, 97, 95, 112, 116, 114>>
XmlCodePtr ==
    <<99, 111, 100, 101, 95, 112, 116, 114>>
GdbArchFeatName ==
    <<111, 114, 103, 46, 103, 110, 117, 46, 103, 100, 98, 46, 97, 114, 109, 46, 99,
      111, 114, 101>>
XmlAnnex ==
    <<116, 97, 114, 103, 101, 116, 46, 120, 109, 108>>

HasPtrType(pReg) ==
    pReg.enmType \in {GDBSTUBREGTYPE_PC, GDBSTUBREGTYPE_STACK_PTR,
                      GDBSTUBREGTYPE_CODE_PTR}

XmlTypeName(pReg) ==
    IF pReg.enmType = GDBSTUBREGTYPE_STACK_PTR THEN XmlDataPtr ELSE XmlCodePtr

\* The two string constants of the length pass: "<reg name=\"\" bitsize=\"\"/>\n"
\* and " type=\"\"".
XmlRegEmpty ==
    <<60, 114, 101, 103, 32, 110, 97, 109, 101, 61, 34, 34, 32,
      98, 105, 116, 115, 105, 122, 101, 61, 34, 34, 47, 62, 10>>
XmlTypeEmpty == <<32, 116, 121, 112, 101, 61, 34, 34>>

\* What the length pass of gdbStubCtxTgtXmlDescCreate adds for one register: two
\* characters for the bit size, and for a pointer register
\* sizeof(" type=\"\"") + cchTypeName - 1.
XmlRegLen(pReg) ==
    Len(XmlRegEmpty) + Len(pReg.pszName) + 2
    + (IF HasPtrType(pReg)
       THEN (Len(XmlTypeEmpty) + 1) + Len(XmlTypeName(pReg)) - 1 ELSE 0)

RECURSIVE XmlRegsLen(_)
XmlRegsLen(regs) ==
    IF regs = <<>> THEN 0 ELSE XmlRegLen(regs[1]) + XmlRegsLen(Tail(regs))

\* cbXmlTgtDesc as the length pass computes it; the two sizeof() of the header
\* and of the footer count their NUL.
XmlDescLen(regs) ==
    (Len(s_szXmlTgtHdr) + 1) + (Len(s_szXmlTgtFooter) + 1)
    + Len(XmlArchOpen) + Len(XmlArchClose) + Len(GdbArchName)
    + (Len(XmlFeatOpen) + Len(XmlFeatOpenEnd)) + Len(XmlFeatClose)
    + Len(GdbArchFeatName)
    + XmlRegsLen(regs)

\* What the write pass stores for one register.
XmlRegText(pReg) ==
    XmlRegOpen \o pReg.pszName \o XmlRegBits
    \o <<48 + (pReg.cRegBits \div 10), 48 + (pReg.cRegBits % 10)>>
    \o (IF HasPtrType(pReg) THEN XmlRegType \o XmlTypeName(pReg) ELSE <<>>)
    \o XmlRegClose

RECURSIVE XmlRegsText(_)
XmlRegsText(regs) ==
    IF regs = <<>> THEN <<>> ELSE XmlRegText(regs[1]) \o XmlRegsText(Tail(regs))

\* The bytes the write pass stores, from pbTgtXmlDesc on.
XmlDescText(regs) ==
    s_szXmlTgtHdr \o XmlArchOpen \o GdbArchName \o XmlArchClose
    \o XmlFeatOpen \o GdbArchFeatName \o XmlFeatOpenEnd
    \o XmlRegsText(regs) \o XmlFeatClose \o s_szXmlTgtFooter

\* The block pbTgtXmlDesc after the write pass: cbTgtXmlDesc cells, those the
\* write pass did not reach never written.
XmlDescCells(regs) ==
    [i \in 1 .. XmlDescLen(regs) |->
        IF i <= Len(XmlDescText(regs)) THEN XmlDescText(regs)[i] ELSE Uninit]

\* gdbStubCtxTgtXmlDescCreate: one allocation of cbXmlTgtDesc bytes, which may
\* fail; writing more than was allocated is undefined.
gdbStubCtxTgtXmlDescCreate(m) ==
    LET cbXmlTgtDesc == XmlDescLen(paRegs)
    IN  {[WithRc(Logged(m, "alloc", <<cbXmlTgtDesc>>), GDBSTUB_INF_SUCCESS)
             EXCEPT !.This.pbTgtXmlDesc = TRUE,
                    !.This.cbTgtXmlDesc = cbXmlTgtDesc,
                    !.ub = @ \/ Len(XmlDescText(paRegs)) > cbXmlTgtDesc]}
        \cup (IF m.faults > 0
              THEN {[WithRc(Logged(m, "allocfail", <<cbXmlTgtDesc>>),
                            GDBSTUB_ERR_NO_MEMORY) EXCEPT !.faults = @ - 1]}
              ELSE {})

\* gdbStubCtxQueryXferReadReply(offRead, cbRead, pbObj, cbObj): 'm' or 'l' and the
\* slice, "l" at the end of the object, an error reply beyond it.  The error
\* replies pass the negative status code as the uint8_t argument.
gdbStubCtxQueryXferReadReply(m, offRead, cbRead, pbObj) ==
    LET cbObj == Len(pbObj)
        cbThisRead == IF offRead + cbRead < cbObj THEN cbRead ELSE cbObj - offRead
        slice == SubSeq(pbObj, offRead + 1, offRead + cbThisRead)
        chFirst == IF cbThisRead < cbRead THEN 108 ELSE 109
        send(m1) ==
            UNION {gdbStubCtxReplySend(
                       [m1 EXCEPT !.This.pbPktBuf = WrBytes(@, 0, <<chFirst>> \o r),
                                  !.ub = @ \/ (\E i \in DOMAIN slice : slice[i] = Uninit)],
                       <<chFirst>> \o r)
                   : r \in ObjReads(slice)}
    IN  IF offRead < cbObj
        THEN UNION {IF m1.rc = GDBSTUB_INF_SUCCESS THEN send(m1)
                    ELSE gdbStubCtxReplySendErr(m1, GDBSTUB_ERR_NO_MEMORY % U8)
                    : m1 \in gdbStubCtxEnsurePktBufSpace(m, cbThisRead + 1)}
        ELSE IF offRead = cbObj THEN gdbStubCtxReplySend(m, <<108>>)
        ELSE gdbStubCtxReplySendErr(m, GDBSTUB_ERR_PROTOCOL_VIOLATION % U8)

\* gdbStubCtxParseHexStringAsInteger on a byte sequence: the value and the number
\* of bytes before the separator (all of s when it has none).
RECURSIVE ParseHexSeq(_, _, _, _)
ParseHexSeq(s, chSep, uVal, n) ==
    IF s = <<>> \/ s[1] = chSep THEN [uVal |-> uVal, n |-> n]
    ELSE ParseHexSeq(Tail(s), chSep, uVal * 16 + gdbStubCtxChrToHex(s[1]), n + 1)

\* gdbStubCtxPktProcessQueryXferParseAnnexOffLen: annex ':' offset ',' length.
\* (The checks that offset and length fit their types hold for the operands of
\* this model.)
gdbStubCtxPktProcessQueryXferParseAnnexOffLen(args) ==
    LET pbSep == SeqMemchr(args, 58, Len(args))
        off == ParseHexSeq(From(args, pbSep + 1), 44, 0, 0)
        len == ParseHexSeq(From(args, pbSep + 1 + off.n + 1), GDBSTUB_PKT_END, 0, 0)
    IN  IF pbSep < 0
        THEN [rc |-> GDBSTUB_ERR_PROTOCOL_VIOLATION, pchAnnex |-> <<>>,
              offRead |-> 0, cbRead |-> 0]
        ELSE [rc |-> GDBSTUB_INF_SUCCESS, pchAnnex |-> SubSeq(args, 1, pbSep),
              offRead |-> off.uVal, cbRead |-> len.uVal]

\* gdbStubCtxPktProcessQueryXferFeatRead building the description on every
\* request.
gdbStubCtxPktProcessQueryXferFeatRead_Rebuild(m, args) ==
    LET reply(m1) ==
            LET a == gdbStubCtxPktProcessQueryXferParseAnnexOffLen(Tail(args))
            IN  IF a.rc # GDBSTUB_INF_SUCCESS THEN gdbStubCtxReplySendErrSts(m1, a.rc)
                ELSE IF a.pchAnnex = XmlAnnex
                THEN gdbStubCtxQueryXferReadReply(m1, a.offRead, a.cbRead,
                                                  XmlDescCells(paRegs))
                ELSE gdbStubCtxReplySendErr(m1, 0)
        built == gdbStubCtxTgtXmlDescCreate(m)
    IN  IF Len(args) < 1 \/ args[1] # 58
        THEN {WithRc(m, GDBSTUB_ERR_PROTOCOL_VIOLATION)}
        ELSE IF m.This.fFeatures = GDBSTUBCTX_FEATURES_F_TGT_DESC
        THEN UNION {IF m1.rc = GDBSTUB_INF_SUCCESS THEN reply(m1)
                    ELSE gdbStubCtxReplySendErrSts(m1, m1.rc) : m1 \in built}
        ELSE gdbStubCtxReplySend(m, <<>>)

\* gdbStubCtxPktProcessQueryXferFeatRead(pbArgs, cbArgs): without the ':' it
\* returns the protocol violation at once; the description is built on the first
\* request that gets here.
gdbStubCtxPktProcessQueryXferFeatRead(m, args) ==
    LET reply(m1) ==
            LET a == gdbStubCtxPktProcessQueryXferParseAnnexOffLen(Tail(args))
            IN  IF a.rc # GDBSTUB_INF_SUCCESS THEN gdbStubCtxReplySendErrSts(m1, a.rc)
                ELSE IF a.pchAnnex = XmlAnnex
                THEN gdbStubCtxQueryXferReadReply(m1, a.offRead, a.cbRead,
                                                  XmlDescCells(paRegs))
                ELSE gdbStubCtxReplySendErr(m1, 0)
        built == IF m.This.pbTgtXmlDesc THEN {WithRc(m, GDBSTUB_INF_SUCCESS)}
                 ELSE gdbStubCtxTgtXmlDescCreate(m)
    IN  IF Len(args) < 1 \/ args[1] # 58
        THEN {WithRc(m, GDBSTUB_ERR_PROTOCOL_VIOLATION)}
        ELSE IF m.This.fFeatures = GDBSTUBCTX_FEATURES_F_TGT_DESC
        THEN UNION {IF m1.rc = GDBSTUB_INF_SUCCESS THEN reply(m1)
                    ELSE gdbStubCtxReplySendErrSts(m1, m1.rc) : m1 \in built}
        ELSE gdbStubCtxReplySend(m, <<>>)

\* g_aQPktProcs: the names, in the order of the table.
QPktProcNames ==
    <<<<84, 83, 116, 97, 116, 117, 115>>, <<83, 117, 112, 112, 111, 114, 116, 101, 100>>,
      <<88, 102, 101, 114, 58, 102, 101, 97, 116, 117, 114, 101, 115, 58, 114, 101, 97, 100>>,
      <<82, 99, 109, 100>>>>

\* gdbStubCtxPktProcessQuery(pbQuery, cbQuery): the first entry whose name agrees
\* with the query over MIN(cchName, cbQuery) bytes gets what follows those bytes;
\* the empty reply when there is none.
gdbStubCtxPktProcessQuery(m, pbQuery) ==
    LET cbCmp(i) == Min(Len(QPktProcNames[i]), Len(pbQuery))
        I == {i \in DOMAIN QPktProcNames :
                 gdbStubMemcmpEq(pbQuery, QPktProcNames[i], cbCmp(i))}
        i == CHOOSE k \in I : \A j \in I : k <= j
        args == From(pbQuery, cbCmp(i))
    IN  IF I = {} THEN gdbStubCtxReplySend(m, <<>>)
        ELSE CASE i = 1 -> gdbStubCtxPktProcessQueryTStatus(m)
               [] i = 2 -> gdbStubCtxPktProcessQuerySupported(m, args)
               [] i = 3 -> gdbStubCtxPktProcessQueryXferFeatRead(m, args)
               [] i = 4 -> gdbStubCtxPktProcessQueryRcmd(m, args)

\* The bytes at &pbPktBuf[2], cbPkt - 1 of them: what follows the command letter,
\* and the '#' that ends the body.
PktArgs(T) == [i \in 1 .. (T.cbPkt - 1) |-> Stored(T, i + 1)]

\* gdbStubCtxPktProcessVCont: ';' and one action letter; thread ids and further
\* actions are ignored.
gdbStubCtxPktProcessVCont(m, pbArgs) ==
    IF Len(pbArgs) < 2 \/ pbArgs[1] # 59
    THEN gdbStubCtxReplySendErrSts(m, GDBSTUB_ERR_PROTOCOL_VIOLATION)
    ELSE CASE pbArgs[2] = 99 ->      \* 'c'
                 {IF m1.rc = GDBSTUB_INF_SUCCESS
                  THEN [m1 EXCEPT !.This.enmTgtStateLast = TGTSTATE_RUNNING]
                  ELSE m1 : m1 \in gdbStubCtxIfTgtContinue(m)}
           [] pbArgs[2] = 115 ->     \* 's'
                 OnSuccess(gdbStubCtxIfTgtStep(m), gdbStubCtxReplySendSigTrap)
           [] pbArgs[2] = 116 ->     \* 't'
                 OnSuccess(gdbStubCtxIfTgtStop(m), gdbStubCtxReplySendSigTrap)
           [] OTHER ->
                 gdbStubCtxReplySendErrSts(m, GDBSTUB_ERR_PROTOCOL_VIOLATION)

\* g_aVPktProcs: the one 'v' packet known, "Cont", and its reply to "vCont?".
VPktProcName == <<67, 111, 110, 116>>
VPktProcReplyQ == <<118, 67, 111, 110, 116, 59, 115, 59, 99, 59, 116>>

\* gdbStubCtxPktProcessV: the identifier runs to the first '?' (a query), else to
\* the first ';', else to the end; an unknown identifier gets the empty reply.
gdbStubCtxPktProcessV(m, pbPktRem) ==
    LET cbPktRem == Len(pbPktRem)
        offQuery == SeqMemchr(pbPktRem, 63, cbPktRem)
        fQuery == offQuery >= 0
        offDelim == IF fQuery THEN offQuery ELSE SeqMemchr(pbPktRem, 59, cbPktRem)
        cchId == IF offDelim >= 0 THEN offDelim ELSE cbPktRem
    IN  IF Len(VPktProcName) = cchId /\ gdbStubMemcmpEq(pbPktRem, VPktProcName, cchId)
        THEN IF fQuery
             THEN gdbStubCtxReplySend(m, VPktProcReplyQ)
             ELSE gdbStubCtxPktProcessVCont(m, From(pbPktRem, cchId))
        ELSE gdbStubCtxReplySend(m, <<>>)

\* The switch of gdbStubCtxPktProcess on the command letter ch.
PktProcessCmd(m, ch) ==
    CASE ch = 33 ->      \* '!'
            IF m.This.pIf.pfnTgtRestart
            THEN gdbStubCtxReplySendOk([m EXCEPT !.This.fExtendedMode = TRUE])
            ELSE gdbStubCtxReplySend(m, <<>>)
      [] ch = 63 ->      \* '?'
            gdbStubCtxReplySendSigTrap(m)
      [] ch = 115 ->     \* 's'
            OnSuccess(gdbStubCtxIfTgtStep(m), gdbStubCtxReplySendSigTrap)
      [] ch = 99 ->      \* 'c'
            {IF m1.rc = GDBSTUB_INF_SUCCESS
             THEN [m1 EXCEPT !.This.enmTgtStateLast = TGTSTATE_RUNNING]
             ELSE m1 : m1 \in gdbStubCtxIfTgtContinue(m)}
      [] ch = 103 ->     \* 'g'
            PktProcessReadRegs(m)
      [] ch = 109 ->     \* 'm'
            PktProcessReadMem(m)
      [] ch = 77 ->      \* 'M'
            PktProcessWriteMem(m)
      [] ch = 112 ->     \* 'p'
            PktProcessReadReg(m)
      [] ch = 80 ->      \* 'P'
            PktProcessWriteReg(m)
      [] ch = 90 ->      \* 'Z'
            PktProcessTpSet(m)
      [] ch = 122 ->     \* 'z'
            PktProcessTpClear(m)
      [] ch = 113 ->     \* 'q'
            gdbStubCtxPktProcessQuery(MarkArgs(m), PktArgs(m.This))
      [] ch = 118 ->     \* 'v'
            gdbStubCtxPktProcessV(MarkArgs(m), PktArgs(m.This))
      [] ch = 82 ->      \* 'R'
            IF m.This.fExtendedMode
            THEN gdbStubCtxIfTgtRestart(m)
            ELSE gdbStubCtxReplySend(m, <<>>)
      [] ch = 107 ->     \* 'k'
            gdbStubCtxIfTgtKill(m)
      [] OTHER ->
            gdbStubCtxReplySend(m, <<>>)

\* gdbStubCtxPktProcess: dispatch on pbPktBuf[1] when cbPkt >= 1.
gdbStubCtxPktProcess(m) ==
    LET T == m.This
        m0 == [Logged(m, "dispatch", PktBody(T)) EXCEPT !.ub = @ \/ ~Defined(T, 1)]
    IN  IF T.cbPkt >= 1
        THEN UNION {PktProcessCmd(m0, ch) : ch \in Rd(T, 1)}
        ELSE {WithRc(m, GDBSTUB_INF_SUCCESS)}

-----------------------------------------------------------------------------
(* Packet framer *)

\* gdbStubCtxPktBufReset
gdbStubCtxPktBufReset(T) ==
    [T EXCEPT !.offPktBuf = 0, !.cbPkt = 0, !.cbChksumRecvLeft = 2]

\* gdbStubCtxReset giving up the packet buffer as well.
gdbStubCtxReset_DropBuf(T) ==
    [gdbStubCtxPktBufReset([T EXCEPT !.enmState = WAIT_FOR_START])
        EXCEPT !.cbPktBufMax = 0, !.pbPktBuf = <<>>]

\* gdbStubCtxReset
gdbStubCtxReset(T) ==
    gdbStubCtxPktBufReset([T EXCEPT !.enmState = WAIT_FOR_START])

\* gdbStubCtxPktBufSearchStart: look for '$' in the first cbData cells of the
\* buffer.  Found: move it and what follows to offset 0 and go to RECEIVE_BODY,
\* the bytes before it counted as processed.  Not found: on an interrupt byte stop
\* the target and send S05; then drop everything.
gdbStubCtxPktBufSearchStart(m, cbData) ==
    LET T == m.This
        m0 == MarkUb(m, 0, cbData)
        found(k) ==
            {[WithRc(m0, GDBSTUB_INF_SUCCESS)
                EXCEPT !.This.pbPktBuf = gdbStubCtxMemmove(T.pbPktBuf, k, cbData - k),
                       !.This.enmState = RECEIVE_BODY,
                       !.This.offPktBuf = 0,
                       !.cbProcessed = k]}
        drop(S) ==
            {[m1 EXCEPT !.This = gdbStubCtxPktBufReset(@), !.cbProcessed = cbData] : m1 \in S}
        notFound ==
            UNION {IF i >= 0
                   THEN drop(OnSuccess(gdbStubCtxIfTgtStop(m0), gdbStubCtxReplySendSigTrap))
                   ELSE drop({WithRc(m0, GDBSTUB_INF_SUCCESS)})
                   : i \in MemchrResults(T, 0, GDBSTUB_OOB_INTERRUPT, cbData)}
    IN  UNION {IF k >= 0 THEN found(k) ELSE notFound
               : k \in MemchrResults(T, 0, GDBSTUB_PKT_START, cbData)}

\* gdbStubCtxPktBufSearchEnd: look for '#' in the cbData new cells at offPktBuf.
gdbStubCtxPktBufSearchEnd(m, cbData) ==
    LET T == m.This
        m0 == WithRc(MarkUb(m, T.offPktBuf, T.offPktBuf + cbData), GDBSTUB_INF_SUCCESS)
    IN  {IF k >= 0
         THEN [m0 EXCEPT !.This.enmState = RECEIVE_CHECKSUM,
                         !.This.offPktBuf = T.offPktBuf + k + 1,
                         !.This.cbPkt = T.offPktBuf + k + 1 - 1,
                         !.cbProcessed = k + 1]
         ELSE [m0 EXCEPT !.This.offPktBuf = T.offPktBuf + cbData,
                         !.cbProcessed = cbData]
         : k \in MemchrResults(T, T.offPktBuf, GDBSTUB_PKT_END, cbData)}

\* The values uChkSum can take: the two cells at offPktBuf decoded as hex digits.
ChksumValues(T) ==
    {HexPairToU8(gdbStubCtxChrToHex(c1), gdbStubCtxChrToHex(c2))
        : c1 \in Rd(T, T.offPktBuf), c2 \in Rd(T, T.offPktBuf + 1)}

\* The values uSum can take: the uint8_t sum of cells 1 .. cbPkt-1.
BodySumValues(T) == {U8Sum(b) : b \in RdRange(T, 1, T.cbPkt)}

\* gdbStubCtxPktBufProcessChksum dispatching whether or not the '+' was written.
gdbStubCtxPktBufProcessChksum_AckIgnored(m, cbData) ==
    LET T == m.This
        cbChksumProcessed == IF cbData < T.cbChksumRecvLeft THEN cbData
                             ELSE T.cbChksumRecvLeft
        T1 == [T EXCEPT !.cbChksumRecvLeft = @ - cbChksumProcessed]
        m1 == [m EXCEPT !.This = T1, !.cbProcessed = cbChksumProcessed,
                        !.rc = GDBSTUB_INF_SUCCESS]
        verdict(uChkSum, uSum) ==
            IF uSum = uChkSum
            THEN Bind(gdbStubCtxIoIfWrite(m1, "ack", <<43>>), gdbStubCtxPktProcess)
            ELSE gdbStubCtxIoIfWrite(m1, "ack", <<45>>)
    IN  IF T1.cbChksumRecvLeft = 0
        THEN {[r EXCEPT !.This = gdbStubCtxReset(@), !.cbProcessed = cbChksumProcessed]
              : r \in UNION {verdict(c, u) : c \in ChksumValues(T), u \in BodySumValues(T)}}
        ELSE {m1}

\* gdbStubCtxPktBufProcessChksum resetting the context only when the write and
\* the dispatcher succeeded.
gdbStubCtxPktBufProcessChksum_ResetOnSuccess(m, cbData) ==
    LET T == m.This
        cbChksumProcessed == IF cbData < T.cbChksumRecvLeft THEN cbData
                             ELSE T.cbChksumRecvLeft
        T1 == [T EXCEPT !.cbChksumRecvLeft = @ - cbChksumProcessed]
        m1 == [m EXCEPT !.This = T1, !.cbProcessed = cbChksumProcessed,
                        !.rc = GDBSTUB_INF_SUCCESS]
        m2 == MarkUb(MarkUb(m1, 1, T.cbPkt), T.offPktBuf, T.offPktBuf + 2)
        verdict(uChkSum, uSum) ==
            IF uSum = uChkSum
            THEN OnSuccess(gdbStubCtxIoIfWrite(m2, "ack", <<43>>), gdbStubCtxPktProcess)
            ELSE gdbStubCtxIoIfWrite(m2, "ack", <<45>>)
    IN  IF T1.cbChksumRecvLeft = 0
        THEN {[r EXCEPT !.This = IF r.rc = GDBSTUB_INF_SUCCESS
                                 THEN gdbStubCtxReset(@) ELSE @,
                        !.cbProcessed = cbChksumProcessed]
              : r \in UNION {verdict(c, u) : c \in ChksumValues(T), u \in BodySumValues(T)}}
        ELSE {m1}

\* gdbStubCtxPktBufProcessChksum: count the checksum characters; with both there,
\* compare, write '+' and dispatch or write '-', and reset the context.
gdbStubCtxPktBufProcessChksum(m, cbData) ==
    LET T == m.This
        cbChksumProcessed == IF cbData < T.cbChksumRecvLeft THEN cbData
                             ELSE T.cbChksumRecvLeft
        T1 == [T EXCEPT !.cbChksumRecvLeft = @ - cbChksumProcessed]
        m1 == [m EXCEPT !.This = T1, !.cbProcessed = cbChksumProcessed,
                        !.rc = GDBSTUB_INF_SUCCESS]
        m2 == MarkUb(MarkUb(m1, 1, T.cbPkt), T.offPktBuf, T.offPktBuf + 2)
        verdict(uChkSum, uSum) ==
            IF uSum = uChkSum
            THEN OnSuccess(gdbStubCtxIoIfWrite(m2, "ack", <<43>>), gdbStubCtxPktProcess)
            ELSE gdbStubCtxIoIfWrite(m2, "ack", <<45>>)
    IN  IF T1.cbChksumRecvLeft = 0
        THEN {[r EXCEPT !.This = gdbStubCtxReset(@), !.cbProcessed = cbChksumProcessed]
              : r \in UNION {verdict(c, u) : c \in ChksumValues(T), u \in BodySumValues(T)}}
        ELSE {m1}

\* One turn of the loop of gdbStubCtxPktBufProcess: the function of the state.
PktBufProcessStep(m, cbData) ==
    CASE m.This.enmState = WAIT_FOR_START -> gdbStubCtxPktBufSearchStart(m, cbData)
      [] m.This.enmState = RECEIVE_BODY -> gdbStubCtxPktBufSearchEnd(m, cbData)
      [] m.This.enmState = RECEIVE_CHECKSUM -> gdbStubCtxPktBufProcessChksum(m, cbData)
      [] OTHER -> {[WithRc(m, GDBSTUB_ERR_INTERNAL_ERROR) EXCEPT !.cbProcessed = 0]}

\* gdbStubCtxPktBufProcess: while (cbData && rc == SUCCESS) { step; cbData -= cbProcessed }
RECURSIVE gdbStubCtxPktBufProcess(_, _)
gdbStubCtxPktBufProcess(m, cbData) ==
    IF cbData = 0 \/ m.rc # GDBSTUB_INF_SUCCESS THEN {m}
    ELSE UNION {gdbStubCtxPktBufProcess(r, cbData - r.cbProcessed)
                : r \in PktBufProcessStep([m EXCEPT !.cbProcessed = 0], cbData)}

-----------------------------------------------------------------------------
(* What the peer sends *)

Pkt(body, chk) == <<GDBSTUB_PKT_START>> \o body \o <<GDBSTUB_PKT_END>> \o chk

\* Frames and stray bytes: '?', 's', 'g' and 'c' packets with their checksums,
\* packets with a wrong or a non-hex checksum, and the interrupt byte.
Items ==
    { Pkt(<<63>>, <<51, 70>>),      \* $?#3F
      Pkt(<<115>>, <<55, 51>>),     \* $s#73
      Pkt(<<115>>, <<48, 48>>),     \* $s#00  wrong checksum
      Pkt(<<63>>, <<120, 51>>),     \* $?#x3  no hex checksum
      Pkt(<<103>>, <<54, 55>>),     \* $g#67
      Pkt(<<99>>, <<54, 51>>),      \* $c#63
      <<GDBSTUB_OOB_INTERRUPT>> }

RECURSIVE Streams(_)
Streams(n) ==
    IF n = 0 THEN {<<>>}
    ELSE LET R == Streams(n - 1) IN R \cup {r \o i : r \in R, i \in Items}

-----------------------------------------------------------------------------
(* The session *)

\* The context GDBStubCtxCreate returns.
CreatedCtx ==
    [ pIoIf            |-> [pfnPoll |-> FALSE],
      pIf              |-> [pfnTgtRestart |-> TRUE, pfnTgtKill |-> TRUE,
                            pfnTgtTpSet |-> TRUE, pfnTgtTpClear |-> TRUE,
                            paCmds |-> TRUE],
      enmState         |-> WAIT_FOR_START,
      cbPktBufMax      |-> 0,
      offPktBuf        |-> 0,
      cbPkt            |-> 0,
      pbPktBuf         |-> <<>>,
      cbChksumRecvLeft |-> 2,
      enmTgtStateLast  |-> TGTSTATE_INVALID,
      cRegs            |-> Len(paRegs),
      cbRegs           |-> Len(RegFile),
      fFeatures        |-> GDBSTUBCTX_FEATURES_F_TGT_DESC,
      pbTgtXmlDesc     |-> FALSE,
      cbTgtXmlDesc     |-> 0,
      fExtendedMode    |-> FALSE ]

HxOff == [pc |-> "off", B |-> <<>>, txt |-> <<>>, dec |-> <<>>, rc |-> 0]

InitSession ==
    /\ pThis = CreatedCtx
    /\ out = <<>>
    /\ log = <<>>
    /\ tgtState = TGTSTATE_STOPPED
    /\ pc = "idle"
    /\ rcRun = GDBSTUB_INF_SUCCESS
    /\ faults = MaxFaults
    /\ nReads = 0
    /\ nResets = 0
    /\ ub = FALSE

Init ==
    /\ InitSession
    /\ wire \in Streams(MaxItems)
    /\ inStream = wire
    /\ hx = HxOff

\* The machine record of the current state.
Mach ==
    [This |-> pThis, out |-> out, log |-> log, tgtState |-> tgtState,
     faults |-> faults, ub |-> ub, rc |-> GDBSTUB_INF_SUCCESS, cbProcessed |-> 0]

\* The state after a call chain ended in machine record r.
Commit(r) ==
    /\ pThis' = r.This
    /\ out' = r.out
    /\ log' = r.log
    /\ tgtState' = r.tgtState
    /\ faults' = r.faults
    /\ ub' = r.ub

\* gdbStubCtxRecv's prologue leaving the last state seen as it was.
RecvPrologue_NoLatch(m) ==
    IF m.tgtState = TGTSTATE_STOPPED /\ m.This.enmTgtStateLast # TGTSTATE_STOPPED
    THEN gdbStubCtxReplySendSigTrap(
             Logged(m, "notify", <<TgtStateCode(m.This.enmTgtStateLast)>>))
    ELSE {m}

\* The prologue of gdbStubCtxRecv: send S05 when the target is found stopped and
\* was not stopped at the last look.
\* The history notes the stop notification ("notify") with the last state seen.
RecvPrologue(m) ==
    LET enmTgtState == m.tgtState
        sent == IF /\ enmTgtState = TGTSTATE_STOPPED
                   /\ m.This.enmTgtStateLast # TGTSTATE_STOPPED
                THEN gdbStubCtxReplySendSigTrap(
                         Logged(m, "notify", <<TgtStateCode(m.This.enmTgtStateLast)>>))
                ELSE {m}
    IN  {[r EXCEPT !.This.enmTgtStateLast = enmTgtState] : r \in sent}

\* GDBStubCtxRun is called: the prologue runs and the receive loop is entered,
\* or Run returns the status of a failed write.
RunEnter ==
    /\ pc = "idle"
    /\ \E r \in RecvPrologue(Mach) :
        /\ Commit(r)
        /\ pc' = IF r.rc = GDBSTUB_INF_SUCCESS THEN "run" ELSE "idle"
        /\ rcRun' = r.rc
    /\ UNCHANGED <<inStream, nReads, nResets, wire, hx>>

\* pfnRead stores the chunk at offPktBuf; a store at or beyond cbPktBufMax lands
\* outside the block.
IoIfReadInto(m, chunk) ==
    LET T == m.This
    IN  [Logged(m, "read", <<Len(chunk)>>)
            EXCEPT !.This.pbPktBuf = WrBytes(@, T.offPktBuf, chunk),
                   !.ub = @ \/ T.offPktBuf + Len(chunk) > T.cbPktBufMax]

\* One turn of the receive loop with data: peek reports cbRead bytes, the buffer
\* is grown, the bytes are read and all of them processed.
RecvTurn(m, chunk) ==
    LET process(m1) == gdbStubCtxPktBufProcess(IoIfReadInto(m1, chunk), Len(chunk))
    IN  OnSuccess(gdbStubCtxEnsurePktBufSpace(m, Len(chunk)), process)

\* The turn for a peek that reports cbRead bytes; Run returns when it fails.
RecvChunk(cbRead) ==
    LET chunk == SubSeq(inStream, 1, cbRead)
    IN  /\ inStream' = SubSeq(inStream, cbRead + 1, Len(inStream))
        /\ \E r \in RecvTurn(Mach, chunk) :
            /\ Commit(r)
            /\ pc' = IF r.rc = GDBSTUB_INF_SUCCESS THEN "run" ELSE "idle"
            /\ rcRun' = r.rc
        /\ nReads' = nReads + 1
        /\ UNCHANGED <<nResets, wire, hx>>

\* The peer's bytes arrive in pieces: peek reports any part of what is to come.
RecvData ==
    /\ pc = "run"
    /\ nReads < MaxReads
    /\ \E cbRead \in 1 .. Len(inStream) : RecvChunk(cbRead)

\* Run returning try-again with the framer put back to its initial state.
RunTryAgain_Resets ==
    /\ pc = "run"
    /\ ~pThis.pIoIf.pfnPoll
    /\ pc' = "idle"
    /\ rcRun' = GDBSTUB_INF_TRY_AGAIN
    /\ pThis' = gdbStubCtxReset(pThis)
    /\ UNCHANGED <<inStream, out, log, tgtState, faults, nReads, nResets, ub, wire, hx>>

\* peek reports no data and there is no poll callback: Run returns try-again.
RunTryAgain ==
    /\ pc = "run"
    /\ ~pThis.pIoIf.pfnPoll
    /\ pc' = "idle"
    /\ rcRun' = GDBSTUB_INF_TRY_AGAIN
    /\ UNCHANGED <<pThis, inStream, out, log, tgtState, faults, nReads, nResets,
                   ub, wire, hx>>

\* GDBStubCtxReset leaving extended mode as well.
Reset_LeavesExtended ==
    /\ pc = "idle"
    /\ nResets < MaxResets
    /\ pThis' = [gdbStubCtxReset(pThis) EXCEPT !.fExtendedMode = FALSE]
    /\ log' = Append(log, Ev("reset", <<Len(inStream)>>))
    /\ nResets' = nResets + 1
    /\ UNCHANGED <<inStream, out, tgtState, pc, rcRun, faults, nReads, ub, wire, hx>>

\* GDBStubCtxReset, called between two calls of Run.  The history notes the call
\* and how many bytes the peer had still to deliver at that moment.
Reset ==
    /\ pc = "idle"
    /\ nResets < MaxResets
    /\ pThis' = gdbStubCtxReset(pThis)
    /\ log' = Append(log, Ev("reset", <<Len(inStream)>>))
    /\ nResets' = nResets + 1
    /\ UNCHANGED <<inStream, out, tgtState, pc, rcRun, faults, nReads, ub, wire, hx>>

\* The running target stops by itself (a breakpoint is hit).
TgtStops ==
    /\ tgtState = TGTSTATE_RUNNING
    /\ tgtState' = TGTSTATE_STOPPED
    /\ UNCHANGED <<pThis, inStream, out, log, pc, rcRun, faults, nReads, nResets,
                   ub, wire, hx>>

Next == RunEnter \/ RecvData \/ RunTryAgain \/ Reset \/ TgtStops

Spec == Init /\ [][Next]_vars

-----------------------------------------------------------------------------
(* Sessions with a peer that sends one item at a time.  hx.B holds the items   *)
(* the peer has still to send; an item is on the transport (inStream) from the *)
(* moment it is sent, and peek reports all of it.                              *)

\* A packet as a peer frames it: the body and the checksum of the body.
Frame(body) == Pkt(body, ReplyChkSumChars(U8Sum(body)))

\* All sequences of items concatenated.
RECURSIVE Flatten(_)
Flatten(items) == IF items = <<>> THEN <<>> ELSE items[1] \o Flatten(Tail(items))

PeerUnchanged ==
    UNCHANGED <<pThis, out, log, tgtState, pc, rcRun, faults, nReads, nResets, ub, wire>>

\* The peer sends its next item once the stub has taken the one before.
PeerSends ==
    /\ hx.pc = "peer"
    /\ hx.B # <<>>
    /\ inStream = <<>>
    /\ inStream' = hx.B[1]
    /\ hx' = [hx EXCEPT !.B = Tail(@)]
    /\ PeerUnchanged

\* peek reports everything that is on the transport.
RecvAll ==
    /\ pc = "run"
    /\ inStream # <<>>
    /\ RecvChunk(Len(inStream))

\* peek reports 0 bytes and there is no poll callback.
RunNoData ==
    /\ inStream = <<>>
    /\ RunTryAgain

\* peek reports 0 bytes and there is a poll callback: pfnPoll blocks until data is
\* there (the next turn of the loop is then RecvAll), or it fails and Run returns
\* its status.
PollFails ==
    /\ pc = "run"
    /\ pThis.pIoIf.pfnPoll
    /\ inStream = <<>>
    /\ faults > 0
    /\ faults' = faults - 1
    /\ log' = Append(log, Ev("pollfail", <<>>))
    /\ pc' = "idle"
    /\ rcRun' = GDBSTUB_ERR_INTERNAL_ERROR
    /\ UNCHANGED <<pThis, inStream, out, tgtState, nReads, nResets, ub, wire, hx>>

\* The session with the items a peer is to send, a transport with or without
\* poll, and the target in state enmState.
InitPeer(items, fPoll, enmState) ==
    /\ pThis = [CreatedCtx EXCEPT !.pIoIf.pfnPoll = fPoll]
    /\ out = <<>>
    /\ log = <<>>
    /\ tgtState = enmState
    /\ pc = "idle"
    /\ rcRun = GDBSTUB_INF_SUCCESS
    /\ faults = MaxFaults
    /\ nReads = 0
    /\ nResets = 0
    /\ ub = FALSE
    /\ wire = Flatten(items)
    /\ inStream = <<>>
    /\ hx = [HxOff EXCEPT !.pc = "peer", !.B = items]

-----------------------------------------------------------------------------
(* Stop notification: a peer that continues, steps, asks and interrupts, a    *)
(* target that runs or is stopped at first and stops by itself, a caller that *)
(* calls Run again whenever it returned.                                      *)

StopItems ==
    { Frame(<<99>>),                                \* c
      Frame(<<118, 67, 111, 110, 116, 59, 99>>),    \* vCont;c
      Frame(<<63>>),                                \* ?
      Frame(<<115>>),                               \* s
      <<GDBSTUB_OOB_INTERRUPT>> }

InitStop ==
    \E items \in SeqsUpTo(StopItems, MaxPeerItems), fPoll \in BOOLEAN,
       enmState \in {TGTSTATE_RUNNING, TGTSTATE_STOPPED} :
        InitPeer(items, fPoll, enmState)

NextStop == RunEnter \/ RecvAll \/ RunNoData \/ PollFails \/ PeerSends \/ TgtStops

\* Run returns when peek reports nothing and there is no poll, and the caller
\* calls Run again whenever it returned.
SpecStop ==
    /\ InitStop
    /\ [][NextStop]_vars
    /\ WF_vars(RunNoData)
    /\ WF_vars(RunEnter)


-----------------------------------------------------------------------------
(* Commands: a peer that sends command packets one at a time to a stub whose  *)
(* transport has no poll and whose target is stopped; the caller calls Run    *)
(* again whenever it returned.                                                *)

CmdItems ==
    {
      \* ?
      Frame(<<63>>),
      \* g
      Frame(<<103>>),
      \* s
      Frame(<<115>>),
      \* c
      Frame(<<99>>),
      \* k
      Frame(<<107>>),
      \* !
      Frame(<<33>>),
      \* R
      Frame(<<82>>),
      \* vCont;s
      Frame(<<118, 67, 111, 110, 116, 59, 115>>),
      \* vCont;c
      Frame(<<118, 67, 111, 110, 116, 59, 99>>),
      \* vCont;t
      Frame(<<118, 67, 111, 110, 116, 59, 116>>),
      \* p0
      Frame(<<112, 48>>),
      \* P0=1F
      Frame(<<80, 48, 61, 49, 70>>),
      \* P0=1F000000
      Frame(<<80, 48, 61, 49, 70, 48, 48, 48, 48, 48, 48>>),
      \* Z0,0,1
      Frame(<<90, 48, 44, 48, 44, 49>>),
      \* z0,0,1
      Frame(<<122, 48, 44, 48, 44, 49>>),
      \* m0,2
      Frame(<<109, 48, 44, 50>>),
      \* M0,1:AB
      Frame(<<77, 48, 44, 49, 58, 65, 66>>),
      \* G1FA0
      Frame(<<71, 49, 70, 65, 48>>),
      \* qTStatus
      Frame(<<113, 84, 83, 116, 97, 116, 117, 115>>),
      \* qSupported
      Frame(<<113, 83, 117, 112, 112, 111, 114, 116, 101, 100>>),
      \* qSupported:
      Frame(<<113, 83, 117, 112, 112, 111, 114, 116, 101, 100, 58>>),
      \* qXfer:features:read
      Frame(<<113, 88, 102, 101, 114, 58, 102, 101, 97, 116, 117, 114, 101, 115, 58, 114, 101, 97, 100>>),
      \* qXfer:features:read:target.xml:0,4
      Frame(<<113, 88, 102, 101, 114, 58, 102, 101, 97, 116, 117, 114, 101, 115, 58, 114, 101, 97, 100, 58, 116, 97, 114, 103, 101, 116, 46, 120, 109, 108, 58, 48, 44, 52>>),
      \* qRcmd
      Frame(<<113, 82, 99, 109, 100>>),
      \* qRcmd,68
      Frame(<<113, 82, 99, 109, 100, 44, 54, 56>>) }

InitCmd ==
    \E items \in SeqsUpTo(CmdItems, MaxPeerItems) :
        InitPeer(items, FALSE, TGTSTATE_STOPPED)

NextCmd == RunEnter \/ RecvAll \/ RunNoData \/ PeerSends

SpecCmd == InitCmd /\ [][NextCmd]_vars


-----------------------------------------------------------------------------
(* Packets in pieces: a peer that sends a '?' packet whole or piece by piece,  *)
(* to a stub whose transport has no poll; Run returns whenever peek reports    *)
(* nothing, and the caller calls it again.                                     *)

FragItems ==
    { <<36>>, <<36, 63>>, <<63>>, <<63, 35>>, <<35, 51>>, <<51>>, <<70>>, <<51, 70>>,
      <<36, 63, 35, 51, 70>> }

InitFrag ==
    \E items \in SeqsUpTo(FragItems, MaxFragItems) :
        InitPeer(items, FALSE, TGTSTATE_STOPPED)

NextFrag == RunEnter \/ RecvAll \/ RunNoData \/ PeerSends

SpecFrag ==
    /\ InitFrag
    /\ [][NextFrag]_vars
    /\ WF_vars(RunNoData)
    /\ WF_vars(RunEnter)


-----------------------------------------------------------------------------
(* Memory reads: a peer that sends m packets, with lengths below, at and above *)
(* the chunk of case 'm', one at a time.                                       *)

MemItems ==
    {
      \* m0,2
      Frame(<<109, 48, 44, 50>>),
      \* m10,3
      Frame(<<109, 49, 48, 44, 51>>),
      \* m0,400
      Frame(<<109, 48, 44, 52, 48, 48>>),
      \* m0,401
      Frame(<<109, 48, 44, 52, 48, 49>>),
      \* m0,0
      Frame(<<109, 48, 44, 48>>) }

InitMem ==
    \E items \in SeqsUpTo(MemItems, MaxMemItems) :
        InitPeer(items, FALSE, TGTSTATE_STOPPED)

NextMem == RunEnter \/ RecvAll \/ RunNoData \/ PeerSends

SpecMem == InitMem /\ [][NextMem]_vars

-----------------------------------------------------------------------------
(* Optional adapter operations: adapters that supply or leave out restart,    *)
(* kill, tracepoint set and tracepoint clear; a peer that asks for them; a     *)
(* caller that may reset the context between two calls of Run.                 *)

OptItems ==
    {
      \* !
      Frame(<<33>>),
      \* R
      Frame(<<82>>),
      \* k
      Frame(<<107>>),
      \* Z0,0,1
      Frame(<<90, 48, 44, 48, 44, 49>>),
      \* Z2,10,1
      Frame(<<90, 50, 44, 49, 48, 44, 49>>),
      \* Z5,0,1
      Frame(<<90, 53, 44, 48, 44, 49>>),
      \* z1,0,1
      Frame(<<122, 49, 44, 48, 44, 49>>),
      \* zA,0,1
      Frame(<<122, 65, 44, 48, 44, 49>>) }

InitOpt ==
    \E items \in SeqsUpTo(OptItems, MaxOptItems),
       fRestart \in BOOLEAN, fKill \in BOOLEAN, fTpSet \in BOOLEAN, fTpClear \in BOOLEAN :
        /\ pThis = [CreatedCtx EXCEPT !.pIoIf.pfnPoll = FALSE,
                                      !.pIf.pfnTgtRestart = fRestart,
                                      !.pIf.pfnTgtKill = fKill,
                                      !.pIf.pfnTgtTpSet = fTpSet,
                                      !.pIf.pfnTgtTpClear = fTpClear]
        /\ out = <<>>
        /\ log = <<>>
        /\ tgtState = TGTSTATE_STOPPED
        /\ pc = "idle"
        /\ rcRun = GDBSTUB_INF_SUCCESS
        /\ faults = MaxFaults
        /\ nReads = 0
        /\ nResets = 0
        /\ ub = FALSE
        /\ wire = Flatten(items)
        /\ inStream = <<>>
        /\ hx = [HxOff EXCEPT !.pc = "peer", !.B = items]

NextOpt == RunEnter \/ RecvAll \/ RunNoData \/ PeerSends \/ Reset

SpecOpt == InitOpt /\ [][NextOpt]_vars

-----------------------------------------------------------------------------
(* Feature negotiation: a peer that sends qSupported packets, with the right   *)
(* checksum or with another one, to a fresh session whose target runs or is    *)
(* stopped.                                                                    *)

\* "qSupported:" and the reply "qXfer:features:read+".
QSupportedBody == <<113, 83, 117, 112, 112, 111, 114, 116, 101, 100, 58>>
QSupportedReply ==
    <<113, 88, 102, 101, 114, 58, 102, 101, 97, 116, 117, 114, 101, 115, 58,
      114, 101, 97, 100, 43>>

\* $qSupported:#37, whose checksum characters are those of "qSupported".
QSupportedStated == Pkt(QSupportedBody, <<51, 55>>)

SupItems ==
    { QSupportedStated,
      \* $qSupported:#71
      Frame(QSupportedBody),
      \* qSupported
      Frame(SubSeq(QSupportedBody, 1, 10)),
      \* qSupported:xmlRegisters=arm
      Frame(QSupportedBody \o <<120, 109, 108, 82, 101, 103, 105, 115, 116, 101,
                                114, 115, 61, 97, 114, 109>>),
      \* qSupported:multiprocess+;xmlRegisters=i386
      Frame(QSupportedBody \o <<109, 117, 108, 116, 105, 112, 114, 111, 99, 101,
                                115, 115, 43, 59, 120, 109, 108, 82, 101, 103,
                                105, 115, 116, 101, 114, 115, 61, 105, 51, 56, 54>>) }

InitSup ==
    \E items \in SeqsUpTo(SupItems, MaxSupItems),
       enmState \in {TGTSTATE_RUNNING, TGTSTATE_STOPPED} :
        InitPeer(items, FALSE, enmState)

NextSup == RunEnter \/ RecvAll \/ RunNoData \/ PeerSends

SpecSup == InitSup /\ [][NextSup]_vars

-----------------------------------------------------------------------------
(* Reading the target description: a peer that asks for slices of target.xml,  *)
(* from its start, up to its end, across its end and beyond it.  The           *)
(* description of the two registers of the model is 0x101 bytes.               *)

\* "qXfer:features:read:target.xml:"
XferReadPrefix ==
    <<113, 88, 102, 101, 114, 58, 102, 101, 97, 116, 117, 114, 101, 115, 58, 114, 101, 97, 100, 58, 116, 97, 114, 103, 101, 116, 46, 120, 109, 108, 58>>

\* Offset and length, in hex, of the requests.
XferItems ==
    {
      \* 0,4
      Frame(XferReadPrefix \o <<48, 44, 52>>),
      \* 0,101
      Frame(XferReadPrefix \o <<48, 44, 49, 48, 49>>),
      \* 0,102
      Frame(XferReadPrefix \o <<48, 44, 49, 48, 50>>),
      \* FD,2
      Frame(XferReadPrefix \o <<70, 68, 44, 50>>),
      \* FF,1
      Frame(XferReadPrefix \o <<70, 70, 44, 49>>),
      \* FF,2
      Frame(XferReadPrefix \o <<70, 70, 44, 50>>),
      \* 101,4
      Frame(XferReadPrefix \o <<49, 48, 49, 44, 52>>),
      \* 102,1
      Frame(XferReadPrefix \o <<49, 48, 50, 44, 49>>) }

InitXfer ==
    \E items \in SeqsUpTo(XferItems, MaxXferItems) :
        InitPeer(items, FALSE, TGTSTATE_STOPPED)

NextXfer == RunEnter \/ RecvAll \/ RunNoData \/ PeerSends

SpecXfer == InitXfer /\ [][NextXfer]_vars

-----------------------------------------------------------------------------
(* The end of a session: the sessions of SpecXfer, which the caller may        *)
(* destroy between two calls of Run.                                           *)

\* The blocks a session gets from pfnMemAlloc: the context and the register
\* scratch (with the index vector at its end) in GDBStubCtxCreate, the packet
\* buffer in gdbStubCtxEnsurePktBufSpace, the target description in
\* gdbStubCtxTgtXmlDescCreate.
Blocks == [pThis |-> 1, pbPktBuf |-> 2, pvRegsScratch |-> 3, pbTgtXmlDesc |-> 4]

\* The blocks the session holds.
Allocated(T) ==
    {Blocks.pThis, Blocks.pvRegsScratch}
    \cup (IF T.cbPktBufMax > 0 THEN {Blocks.pbPktBuf} ELSE {})
    \cup (IF T.pbTgtXmlDesc THEN {Blocks.pbTgtXmlDesc} ELSE {})

\* GDBStubCtxDestroy: pfnMemFree for the packet buffer when there is one, then
\* for the context.
GDBStubCtxDestroy ==
    /\ pc = "idle"
    /\ pc' = "destroyed"
    /\ log' = log
              \o (IF pThis.cbPktBufMax > 0
                  THEN <<Ev("release", <<Blocks.pbPktBuf>>)>> ELSE <<>>)
              \o <<Ev("release", <<Blocks.pThis>>)>>
    /\ UNCHANGED <<pThis, inStream, out, tgtState, rcRun, faults, nReads, nResets,
                   ub, wire, hx>>

NextLife == RunEnter \/ RecvAll \/ RunNoData \/ PeerSends \/ GDBStubCtxDestroy

SpecLife == InitXfer /\ [][NextLife]_vars

-----------------------------------------------------------------------------
(* Checksums: a peer that sends frames whose two checksum characters are      *)
(* upper-case or lower-case hex digits or no hex digits at all, right or      *)
(* wrong for the body, one frame at a time.                                    *)

\* Bodies without a command (the empty reply): the single bytes 0xf3 and 0xff.
ChkBodies == {<<243>>, <<255>>}

\* Checksum characters: '3', 'F', 'f' and 'x'.
ChkChars == {51, 70, 102, 120}

\* Every body with every pair of checksum characters, and "s" (a target call
\* that may fail) with its checksum "73" and with "37".
ChkItems ==
    {Pkt(body, <<c1, c2>>) : body \in ChkBodies, c1 \in ChkChars, c2 \in ChkChars}
    \cup {Frame(<<115>>), Pkt(<<115>>, <<51, 55>>)}

InitChk ==
    \E items \in SeqsUpTo(ChkItems, MaxChkItems) :
        InitPeer(items, FALSE, TGTSTATE_STOPPED)

NextChk == RunEnter \/ RecvAll \/ RunNoData \/ PeerSends

SpecChk == InitChk /\ [][NextChk]_vars

-----------------------------------------------------------------------------
(* Operands: a peer whose packets carry a character that is no hex digit in   *)
(* the place of an address, a length or a register number.                     *)

OperandItems ==
    {
      \* m0,1
      Frame(<<109, 48, 44, 49>>),
      \* mG,1
      Frame(<<109, 71, 44, 49>>),
      \* m0,G
      Frame(<<109, 48, 44, 71>>),
      \* pG
      Frame(<<112, 71>>),
      \* Z0,G,1
      Frame(<<90, 48, 44, 71, 44, 49>>) }

InitOperand ==
    \E items \in SeqsUpTo(OperandItems, MaxOperandItems) :
        InitPeer(items, FALSE, TGTSTATE_STOPPED)

NextOperand == RunEnter \/ RecvAll \/ RunNoData \/ PeerSends

SpecOperand == InitOperand /\ [][NextOperand]_vars

-----------------------------------------------------------------------------
(* Reading the whole description: a peer that asks for target.xml from offset *)
(* 0 in slices of one length, each request at the offset the payloads so far  *)
(* have brought it to, until a reply starts with 'l'.                          *)

\* The slice lengths of the readers: lengths that do not divide the size of
\* the description, its size less one, its size, and more.
ChunkLens == {16, 100, XmlDescLen(paRegs) - 1, XmlDescLen(paRegs), 1000}

\* A number below 16^3 as GDB writes it: hex digits without leading zeros.
HexDigits(n) ==
    IF n < 16 THEN <<gdbStubCtxHexToChr(n)>>
    ELSE IF n < 256 THEN <<gdbStubCtxHexToChr(n \div 16), gdbStubCtxHexToChr(n % 16)>>
    ELSE <<gdbStubCtxHexToChr(n \div 256), gdbStubCtxHexToChr((n \div 16) % 16),
           gdbStubCtxHexToChr(n % 16)>>

\* hx.dec holds the slice length, hx.rc the offset of the next request, hx.B the
\* offsets asked for so far, hx.txt the payloads received so far.
InitChunk ==
    /\ pThis = CreatedCtx
    /\ out = <<>>
    /\ log = <<>>
    /\ tgtState = TGTSTATE_STOPPED
    /\ pc = "idle"
    /\ rcRun = GDBSTUB_INF_SUCCESS
    /\ faults = MaxFaults
    /\ nReads = 0
    /\ nResets = 0
    /\ ub = FALSE
    /\ wire = <<>>
    /\ inStream = <<>>
    /\ hx \in {[HxOff EXCEPT !.pc = "ask", !.dec = <<cb>>] : cb \in ChunkLens}

\* The peer sends its next request: qXfer:features:read:target.xml:off,len.
ReaderAsks ==
    /\ hx.pc = "ask"
    /\ inStream = <<>>
    /\ LET req == Frame(XferReadPrefix \o HexDigits(hx.rc) \o <<44>>
                        \o HexDigits(hx.dec[1]))
       IN  /\ inStream' = req
           /\ wire' = wire \o req
    /\ hx' = [hx EXCEPT !.pc = "wait", !.B = Append(@, hx.rc)]
    /\ UNCHANGED <<pThis, out, log, tgtState, pc, rcRun, faults, nReads, nResets, ub>>

\* The peer takes the reply to its request: the payload behind 'm' moves the
\* offset on, 'l' ends the reading; on anything else, and when the request got
\* no reply, the peer gives up.
ReaderTakes ==
    /\ hx.pc = "wait"
    /\ inStream = <<>>
    /\ LET I == {i \in DOMAIN log : log[i].t = "dispatch"}
           last == CHOOSE i \in I : \A j \in I : j <= i
           w == IF Cardinality(I) < Len(hx.B) THEN <<>>
                ELSE SelectSeq(SubSeq(log, last + 1, Len(log)),
                               LAMBDA e : e.t = "write")
           body == IF Len(w) >= 4 THEN w[2].b ELSE <<>>
       IN  hx' = IF body # <<>> /\ body[1] = 109
                 THEN [hx EXCEPT !.pc = "ask", !.txt = @ \o Tail(body),
                                 !.rc = @ + Len(body) - 1]
                 ELSE IF body # <<>> /\ body[1] = 108
                 THEN [hx EXCEPT !.pc = "done", !.txt = @ \o Tail(body)]
                 ELSE [hx EXCEPT !.pc = "failed"]
    /\ UNCHANGED <<pThis, inStream, out, log, tgtState, pc, rcRun, faults, nReads,
                   nResets, ub, wire>>

NextChunk == RunEnter \/ RecvAll \/ RunNoData \/ ReaderAsks \/ ReaderTakes

SpecChunk == InitChunk /\ [][NextChunk]_vars

-----------------------------------------------------------------------------
(* The whole life of a session: GDBStubCtxCreate with any of its three        *)
(* pointers null or not and an allocator that may fail once, then the         *)
(* session of SpecLife.                                                        *)

\* The caller's handle before GDBStubCtxCreate: there is no context yet.
NoCtx == [f \in DOMAIN CreatedCtx |-> Uninit]

\* A pointer argument in the history: 0 for NULL, 1 otherwise.
PtrArg(fSet) == IF fSet THEN 1 ELSE 0

\* GDBStubCtxCreate without the pfnMemFree of the context on its failure path.
CreateCtx_NoFree(m, phCtx, pIoIf, pIf) ==
    LET called == Logged(m, "create", <<PtrArg(phCtx), PtrArg(pIoIf), PtrArg(pIf)>>)
        ctx == Logged(called, "obtain", <<Blocks.pThis>>)
        scratch == Logged(ctx, "obtain", <<Blocks.pvRegsScratch>>)
    IN  IF ~phCtx \/ ~pIoIf \/ ~pIf
        THEN {WithRc(called, GDBSTUB_ERR_INVALID_PARAMETER)}
        ELSE {[WithRc(Logged(scratch, "handle", <<Blocks.pThis>>), GDBSTUB_INF_SUCCESS)
                  EXCEPT !.This = gdbStubCtxReset(CreatedCtx)]}
             \cup (IF m.faults > 0
                   THEN {[WithRc(Logged(called, "obtainfail", <<Blocks.pThis>>),
                                 GDBSTUB_ERR_NO_MEMORY) EXCEPT !.faults = @ - 1],
                         [WithRc(Logged(ctx, "obtainfail", <<Blocks.pvRegsScratch>>),
                                 GDBSTUB_ERR_NO_MEMORY) EXCEPT !.faults = @ - 1]}
                   ELSE {})

\* The body of GDBStubCtxCreate: the three pointers are tested before anything
\* else; the context is allocated and filled in, then the register scratch; with
\* both blocks the framer is reset and the handle written; without the scratch
\* the context is freed again.  "obtain" and "release" name the block.
CreateCtx(m, phCtx, pIoIf, pIf) ==
    LET called == Logged(m, "create", <<PtrArg(phCtx), PtrArg(pIoIf), PtrArg(pIf)>>)
        ctx == Logged(called, "obtain", <<Blocks.pThis>>)
        scratch == Logged(ctx, "obtain", <<Blocks.pvRegsScratch>>)
        noscratch == Logged(Logged(ctx, "obtainfail", <<Blocks.pvRegsScratch>>),
                            "release", <<Blocks.pThis>>)
    IN  IF ~phCtx \/ ~pIoIf \/ ~pIf
        THEN {WithRc(called, GDBSTUB_ERR_INVALID_PARAMETER)}
        ELSE {[WithRc(Logged(scratch, "handle", <<Blocks.pThis>>), GDBSTUB_INF_SUCCESS)
                  EXCEPT !.This = gdbStubCtxReset(CreatedCtx)]}
             \cup (IF m.faults > 0
                   THEN {[WithRc(Logged(called, "obtainfail", <<Blocks.pThis>>),
                                 GDBSTUB_ERR_NO_MEMORY) EXCEPT !.faults = @ - 1],
                         [WithRc(noscratch, GDBSTUB_ERR_NO_MEMORY)
                             EXCEPT !.faults = @ - 1]}
                   ELSE {})

\* GDBStubCtxCreate is called; its status code is kept in hx.rc.
GDBStubCtxCreate ==
    /\ pc = "new"
    /\ \E phCtx \in BOOLEAN, pIoIf \in BOOLEAN, pIf \in BOOLEAN :
        \E r \in CreateCtx(Mach, phCtx, pIoIf, pIf) :
            /\ Commit(r)
            /\ pc' = IF r.rc = GDBSTUB_INF_SUCCESS THEN "idle" ELSE "failed"
            /\ hx' = [hx EXCEPT !.rc = r.rc]
    /\ UNCHANGED <<inStream, rcRun, nReads, nResets, wire>>

InitCreate ==
    \E items \in SeqsUpTo(XferItems, MaxXferItems) :
        /\ pThis = NoCtx
        /\ out = <<>>
        /\ log = <<>>
        /\ tgtState = TGTSTATE_STOPPED
        /\ pc = "new"
        /\ rcRun = GDBSTUB_INF_SUCCESS
        /\ faults = MaxFaults
        /\ nReads = 0
        /\ nResets = 0
        /\ ub = FALSE
        /\ wire = Flatten(items)
        /\ inStream = <<>>
        /\ hx = [HxOff EXCEPT !.pc = "peer", !.B = items]

NextCreate == GDBStubCtxCreate \/ NextLife

SpecCreate == InitCreate /\ [][NextCreate]_vars

-----------------------------------------------------------------------------
(* The description builder on its own: the two passes of                      *)
(* gdbStubCtxTgtXmlDescCreate over register tables of every kind.             *)

\* Registers: names of one to three characters, widths of one and of two
\* decimal digits, every register type.
XmlRegs ==
    {[pszName |-> n, cRegBits |-> b, enmType |-> t] :
        n \in {<<114>>, <<112, 99>>, <<114, 49, 48>>},
        b \in {8, 32, 64},
        t \in {GDBSTUBREGTYPE_GP, GDBSTUBREGTYPE_PC, GDBSTUBREGTYPE_STACK_PTR,
               GDBSTUBREGTYPE_CODE_PTR}}

InitXml ==
    /\ InitSession
    /\ wire = <<>>
    /\ inStream = <<>>
    /\ hx \in {[HxOff EXCEPT !.pc = "regs", !.B = regs] : regs \in SeqsUpTo(XmlRegs, MaxXmlRegs)}

\* gdbStubCtxTgtXmlDescCreate for the register table hx.B with an allocator that
\* succeeds: hx.rc is cbTgtXmlDesc as the length pass computed it, hx.txt the
\* bytes the write pass stored from pbTgtXmlDesc on.
XmlDescCreate ==
    /\ hx.pc = "regs"
    /\ hx' = [hx EXCEPT !.pc = "built", !.rc = XmlDescLen(hx.B),
                         !.txt = XmlDescText(hx.B)]
    /\ UNCHANGED <<pThis, inStream, out, log, tgtState, pc, rcRun, faults, nReads,
                   nResets, ub, wire>>

NextXml == XmlDescCreate

SpecXml == InitXml /\ [][NextXml]_vars

-----------------------------------------------------------------------------
(* The reply builder on its own: one reply sent on a fresh session *)

\* Bytes for reply bodies: NUL, a digit, letters, and 0xff to make sums wrap.
ReplyBytes == {0, 48, 79, 107, 255}

\* Reply bodies: all short ones over ReplyBytes, the replies the stub knows, and
\* long ones of more than 255 bytes.
ReplyBodies ==
    SeqsUpTo(ReplyBytes, MaxHexLen)
    \cup {<<79, 75>>, <<83, 48, 53>>, <<69, 48, 49>>}
    \cup {Repeat(b, U8 - 1 + n) : b \in {1, 255}, n \in 1 .. MaxLongExtra}

InitReply ==
    /\ InitSession
    /\ wire = <<>>
    /\ inStream = <<>>
    /\ hx \in {[HxOff EXCEPT !.pc = "reply", !.B = body] : body \in ReplyBodies}

\* gdbStubCtxReplySend(pThis, hx.B, Len(hx.B)) is called.
ReplySend ==
    /\ hx.pc = "reply"
    /\ \E r \in gdbStubCtxReplySend(Mach, hx.B) :
        /\ Commit(r)
        /\ hx' = [hx EXCEPT !.pc = "sent", !.rc = r.rc]
    /\ UNCHANGED <<inStream, pc, rcRun, nReads, nResets, wire>>

NextReply == ReplySend

SpecReply == InitReply /\ [][NextReply]_vars

-----------------------------------------------------------------------------
(* The hex codec on its own: encode, optionally lower the case, decode *)

\* Bytes that between them hold every nibble value in both positions.
HexBytes == {0, 18, 52, 86, 120, 154, 171, 188, 205, 222, 239, 255}

\* What a peer does that writes its hex digits in lower case.
ToLower(ch) == IF ch >= 65 /\ ch <= 90 THEN ch + 32 ELSE ch

InitHex ==
    /\ InitSession
    /\ wire = <<>>
    /\ inStream = <<>>
    /\ hx \in {[HxOff EXCEPT !.pc = "encode", !.B = B] : B \in SeqsUpTo(HexBytes, MaxHexLen)}

HexUnchanged ==
    UNCHANGED <<pThis, inStream, out, log, tgtState, pc, rcRun, faults, nReads,
                nResets, ub, wire>>

\* gdbStubCtxEncodeBinaryAsHex(txt, 2 * |B|, B, |B|)
HexEncode ==
    /\ hx.pc = "encode"
    /\ LET enc == gdbStubCtxEncodeBinaryAsHex(2 * Len(hx.B), hx.B)
       IN  hx' = [hx EXCEPT !.pc = "text", !.txt = enc.dst, !.rc = enc.rc]
    /\ HexUnchanged

\* The text comes back with its letters in lower case.
HexLower ==
    /\ hx.pc = "text"
    /\ hx' = [hx EXCEPT !.pc = "lower", !.txt = [i \in DOMAIN hx.txt |-> ToLower(hx.txt[i])]]
    /\ HexUnchanged

\* gdbStubCtxParseHexStringAsByteBuf(txt, |txt|, dec, |B|, NULL)
HexDecode ==
    /\ hx.pc \in {"text", "lower"}
    /\ LET dec == gdbStubCtxParseHexStringAsByteBuf(hx.txt, Len(hx.B))
       IN  hx' = [hx EXCEPT !.pc = IF hx.pc = "text" THEN "decoded" ELSE "decodedLower",
                            !.dec = dec.dst, !.rc = dec.rc]
    /\ HexUnchanged

NextHex == HexEncode \/ HexLower \/ HexDecode

SpecHex == InitHex /\ [][NextHex]_vars

-----------------------------------------------------------------------------
(* Reading the history and the wire *)

\* The events of l whose tag is in T, in order.
EventsOf(l, T) == SelectSeq(l, LAMBDA e : e.t \in T)

\* The acknowledgement bytes written, in order.
AckBytes(l) == LET a == EventsOf(l, {"ack"}) IN [i \in DOMAIN a |-> a[i].b[1]]

\* The packet bodies handed to the dispatcher, in order.
DispatchBodies(l) == LET d == EventsOf(l, {"dispatch"}) IN [i \in DOMAIN d |-> d[i].b]

\* The adapter calls only the dispatcher makes.
DispatcherCalls == {"tgtStep", "tgtCont", "tgtRegsRead", "tgtRestart", "tgtKill"}

\* The first index >= from where s holds ch, or 0.
IndexOf(s, ch, from) ==
    LET I == {i \in from .. Len(s) : s[i] = ch}
    IN  IF I = {} THEN 0 ELSE CHOOSE i \in I : \A j \in I : i <= j

\* The complete frames of a byte stream by the wire format: bytes up to the next
\* '$' are skipped, the body runs to the next '#', two checksum characters follow.
RECURSIVE WireFrames(_)
WireFrames(s) ==
    LET a == IndexOf(s, GDBSTUB_PKT_START, 1)
        e == IF a = 0 THEN 0 ELSE IndexOf(s, GDBSTUB_PKT_END, a + 1)
    IN  IF e = 0 \/ e + 2 > Len(s) THEN <<>>
        ELSE <<[body |-> SubSeq(s, a + 1, e - 1), chk |-> SubSeq(s, e + 1, e + 2),
                skipped |-> a - 1]>>
             \o WireFrames(SubSeq(s, e + 3, Len(s)))

\* The two checksum characters decode to the modulo-256 sum of the body.
FrameValid(f) ==
    HexPairToU8(gdbStubCtxChrToHex(f.chk[1]), gdbStubCtxChrToHex(f.chk[2]))
        = SumBytes(f.body) % U8

WireAcks(s) ==
    LET F == WireFrames(s) IN [i \in DOMAIN F |-> IF FrameValid(F[i]) THEN 43 ELSE 45]

WireValidBodies(s) ==
    LET V == SelectSeq(WireFrames(s), FrameValid) IN [i \in DOMAIN V |-> V[i].body]

\* s is frames back to back and nothing else.
OnlyFrames(s) ==
    LET F == WireFrames(s)
    IN  /\ \A i \in DOMAIN F : F[i].skipped = 0
        /\ Len(s) = SumBytes([i \in DOMAIN F |-> Len(F[i].body) + 4])

\* Every byte of the wire was read, there was no reset, the environment injected
\* no failure, and no indeterminate or out-of-block byte was touched.
PlainRunDone ==
    /\ inStream = <<>>
    /\ nResets = 0
    /\ faults = MaxFaults
    /\ ~ub

-----------------------------------------------------------------------------
(* Framing claims *)

\* C1: for every frame on the wire exactly one acknowledgement is written, '+'
\* when its two checksum characters decode to the modulo-256 sum of its body and
\* '-' otherwise, and the dispatcher runs for the frames acknowledged with '+' and
\* for no other.
C1_OneAckPerFrame ==
    PlainRunDone =>
        /\ AckBytes(log) = WireAcks(wire)
        /\ DispatchBodies(log) = WireValidBodies(wire)

\* C2: two or more complete valid packets delivered by one transport read are
\* each acknowledged and dispatched exactly once, in the order they arrived.
C2_EachPacketOnceInOrder ==
    ( /\ PlainRunDone
      /\ nReads = 1
      /\ OnlyFrames(wire)
      /\ Len(WireFrames(wire)) >= 2
      /\ \A i \in DOMAIN WireFrames(wire) : FrameValid(WireFrames(wire)[i]) )
    => /\ DispatchBodies(log) = [i \in DOMAIN WireFrames(wire) |-> WireFrames(wire)[i].body]
       /\ AckBytes(log) = [i \in DOMAIN WireFrames(wire) |-> 43]

\* The transport output when every frame of F arrives in a read of its own, no
\* failure injected: the receive turn applied frame after frame.
RECURSIVE DeliverEach(_, _)
DeliverEach(S, F) ==
    IF F = <<>> THEN S
    ELSE LET turn(m) == RecvTurn(m, Pkt(F[1].body, F[1].chk))
         IN  DeliverEach(OnSuccess(S, turn), Tail(F))

PerPacketOutputs(s) ==
    LET m0 == [This |-> CreatedCtx, out |-> <<>>, log |-> <<>>,
               tgtState |-> TGTSTATE_STOPPED, faults |-> 0, ub |-> FALSE,
               rc |-> GDBSTUB_INF_SUCCESS, cbProcessed |-> 0]
    IN  {r.out : r \in DeliverEach(RecvPrologue(m0), WireFrames(s))}

\* Packets that neither resume the target nor interrupt it: '?' and 's'.
QuietFrames(s) ==
    /\ OnlyFrames(s)
    /\ WireFrames(s) # <<>>
    /\ \A i \in DOMAIN WireFrames(s) : WireFrames(s)[i].body \in {<<63>>, <<115>>}

\* The stream offsets at which a transport read ended.
ReadEnds(l) ==
    LET r == EventsOf(l, {"read"})
    IN  {SumBytes([i \in 1 .. k |-> r[i].b[1]]) : k \in DOMAIN r}

\* The stream offsets at which a frame of s ends, s being frames back to back.
FrameEnds(s) ==
    LET F == WireFrames(s)
    IN  {SumBytes([i \in 1 .. k |-> Len(F[i].body) + 4]) : k \in DOMAIN F}

\* C3: wherever the transport splits a packet into reads (no read running past
\* the end of a packet), the acknowledgements and replies written are those
\* written when every packet arrives in one read.
C3_SplitIndependent ==
    (PlainRunDone /\ QuietFrames(wire) /\ FrameEnds(wire) \subseteq ReadEnds(log))
    => out \in PerPacketOutputs(wire)

\* C4: the write offset of the packet buffer is at most its capacity.
C4_OffsetWithinCapacity == pThis.offPktBuf <= pThis.cbPktBufMax

\* C5: no reallocation of the packet buffer asks for less than the one before:
\* the capacity never decreases.
C5_CapacityNeverDecreases ==
    LET a == EventsOf(log, {"alloc"})
    IN  \A i \in DOMAIN a : \A j \in DOMAIN a : i < j => a[i].b[1] <= a[j].b[1]


\* The index of the reset event in the history, or 0.
ResetAt(l) == LET I == {i \in DOMAIN l : l[i].t = "reset"}
              IN  IF I = {} THEN 0 ELSE CHOOSE i \in I : TRUE

\* The bytes of the wire the peer delivered after the reset.
BytesAfterReset ==
    SubSeq(wire, Len(wire) - log[ResetAt(log)].b[1] + 1, Len(wire))

\* C6: after GDBStubCtxReset the next '$' starts a packet that is framed and
\* verified by its own bytes alone: one frame delivered after the reset gets the
\* acknowledgement its checksum characters call for, whatever came before.
C6_FramedAfterResetByOwnBytes ==
    ( /\ nResets = 1
      /\ inStream = <<>>
      /\ faults = MaxFaults
      /\ ~ub
      /\ OnlyFrames(BytesAfterReset)
      /\ Len(WireFrames(BytesAfterReset)) = 1 )
    => AckBytes(SubSeq(log, ResetAt(log) + 1, Len(log))) = WireAcks(BytesAfterReset)


-----------------------------------------------------------------------------
(* Reset and acknowledgement order *)

\* The context fields GDBStubCtxReset is to leave alone.
Retained(T) ==
    [pbPktBuf |-> T.pbPktBuf, cbPktBufMax |-> T.cbPktBufMax, fFeatures |-> T.fFeatures,
     fExtendedMode |-> T.fExtendedMode, pbTgtXmlDesc |-> T.pbTgtXmlDesc,
     cbTgtXmlDesc |-> T.cbTgtXmlDesc, enmTgtStateLast |-> T.enmTgtStateLast,
     cRegs |-> T.cRegs, cbRegs |-> T.cbRegs, pIf |-> T.pIf, pIoIf |-> T.pIoIf]

\* C7: a call of GDBStubCtxReset leaves the buffer block and its capacity, the
\* feature bits, the extended-mode flag, the target description and the last
\* target state as they were, writes nothing to the transport and calls neither
\* the allocator nor the target: the history grows by the reset itself only.
C7_ResetTouchesFramerOnly ==
    [][ nResets' # nResets =>
          /\ Retained(pThis') = Retained(pThis)
          /\ out' = out
          /\ tgtState' = tgtState
          /\ Len(log') = Len(log) + 1
          /\ SubSeq(log', 1, Len(log)) = log
          /\ log'[Len(log')].t = "reset" ]_vars

\* C7 witness: a reset has just been made in the middle of a frame, with a buffer
\* allocated and the '#' and one checksum character of the frame received.
C7_Witness ==
    /\ nResets = 1
    /\ log # <<>>
    /\ log[Len(log)].t = "reset"
    /\ pThis.cbPktBufMax >= 4
    /\ pThis.enmState = WAIT_FOR_START
    /\ pThis.offPktBuf = 0
    /\ Len(wire) - Len(inStream) = 4
    /\ wire[1] = GDBSTUB_PKT_START
    /\ wire[3] = GDBSTUB_PKT_END
    /\ ~ub

\* C8: the dispatcher is entered only directly after a '+' was written, every
\* adapter call of the dispatcher lies behind such an entry with no other
\* acknowledgement, read or reset between, and a '+' that could not be written is
\* followed by no dispatch.
C8_AckBeforeDispatch ==
    \A i \in DOMAIN log :
        /\ log[i].t = "dispatch" => (i > 1 /\ log[i - 1] = Ev("ack", <<43>>))
        /\ log[i].t \in DispatcherCalls =>
              \E j \in 1 .. (i - 1) :
                  /\ log[j].t = "dispatch"
                  /\ \A k \in (j + 1) .. (i - 1) :
                        log[k].t \notin {"ack", "read", "reset", "dispatch"}
        /\ log[i] = Ev("writefail", <<43>>) =>
              (i = Len(log) \/ log[i + 1].t \notin ({"dispatch"} \cup DispatcherCalls))

\* C8 witness: one packet was acknowledged and dispatched and made its adapter
\* call, and the '+' of another could not be written.
C8_Witness ==
    /\ \E i \in DOMAIN log : log[i] = Ev("writefail", <<43>>)
    /\ \E j \in DOMAIN log : log[j].t \in DispatcherCalls


-----------------------------------------------------------------------------
(* Reply frames and the hex codec *)

\* The sixteen upper-case hex digits '0'..'9', 'A'..'F'.
UpperHexDigits == <<48, 49, 50, 51, 52, 53, 54, 55, 56, 57, 65, 66, 67, 68, 69, 70>>

\* '$' body '#' and the two upper-case digits of the body sum modulo 256.
ReplyFrame(body) ==
    LET sum == SumBytes(body) % U8
    IN  <<GDBSTUB_PKT_START>> \o body \o <<GDBSTUB_PKT_END>>
        \o <<UpperHexDigits[(sum \div 16) + 1], UpperHexDigits[(sum % 16) + 1]>>

\* C9: a reply sent without a transport failure is on the wire as '$', the body,
\* '#' and the two upper-case hex digits, high nibble first, of the body sum
\* modulo 256, also for bodies of more than 255 bytes; the empty reply is $#00
\* and the stop reply $S05#B8.
C9_ReplyFrameChecksum ==
    (hx.pc = "sent" /\ hx.rc = GDBSTUB_INF_SUCCESS) =>
        /\ out = ReplyFrame(hx.B)
        /\ hx.B = <<>> => out = <<36, 35, 48, 48>>
        /\ hx.B = <<83, 48, 53>> => out = <<36, 83, 48, 53, 35, 66, 56>>

\* C9 witness: a body of more than 255 bytes whose byte sum is above 255 was sent
\* and its frame is complete.
C9_Witness ==
    /\ hx.pc = "sent"
    /\ hx.rc = GDBSTUB_INF_SUCCESS
    /\ Len(hx.B) > U8 - 1
    /\ SumBytes(hx.B) > U8 - 1
    /\ Len(out) = Len(hx.B) + 4

\* C10: the encoder's text decoded into |B| bytes gives B back, and so does the
\* same text with its letters in lower case.
C10_HexRoundTrip ==
    hx.pc \in {"decoded", "decodedLower"} =>
        /\ hx.rc = GDBSTUB_INF_SUCCESS
        /\ hx.dec = hx.B

\* C10 witness: a text of the longest B with a letter digit in it was lowered and
\* decoded.
C10_Witness ==
    /\ hx.pc = "decodedLower"
    /\ Len(hx.B) = MaxHexLen
    /\ \E i \in DOMAIN hx.txt : hx.txt[i] >= 97 /\ hx.txt[i] <= 102
    /\ Len(hx.dec) = Len(hx.B)

-----------------------------------------------------------------------------
(* Stop notification *)

\* The history events that are stop notifications, and successful continues.
IsNotify(e) == e.t = "notify"
IsContinued(e) == e.t = "tgtCont" /\ e.b = <<>>

NotifyCount(l) == Len(SelectSeq(l, IsNotify))

\* C11: Run sends an unsolicited S05 on entry only when the last state it saw of
\* the target was Running: none when it saw no state yet (the first Run of a
\* session) or saw it Stopped.
C11_NotifyOnlyAfterRunning ==
    \A i \in DOMAIN log :
        IsNotify(log[i]) => log[i].b = <<TgtStateCode(TGTSTATE_RUNNING)>>

\* The indices where a stretch of the history begins: its start and the event
\* after every successful continue.
StretchStarts(l) == {1} \cup {i + 1 : i \in {j \in DOMAIN l : IsContinued(l[j])}}

\* C12: between one successful continue (c or vCont;c) and the next, and before
\* the first and after the last, the target stops at most once and Run sends at
\* most one unsolicited S05, however often it is entered.
C12_OneNotifyPerStop ==
    \A a \in StretchStarts(log) :
        LET later == {b \in StretchStarts(log) : b > a}
            end == IF later = {} THEN Len(log)
                   ELSE (CHOOSE b \in later : \A c \in later : b <= c) - 1
        IN  NotifyCount(SubSeq(log, a, end)) <= 1

\* C12 witness: after a successful continue the target stopped, Run was entered
\* and sent the S05, took a packet from the peer after that, and returned
\* try-again with the target still stopped: the caller is to enter Run again.
C12_Witness ==
    /\ pc = "idle"
    /\ rcRun = GDBSTUB_INF_TRY_AGAIN
    /\ tgtState = TGTSTATE_STOPPED
    /\ pThis.enmTgtStateLast = TGTSTATE_STOPPED
    /\ \E i \in DOMAIN log : \E j \in DOMAIN log : \E k \in DOMAIN log :
          /\ i < j /\ j < k
          /\ IsContinued(log[i])
          /\ IsNotify(log[j]) /\ log[j].b = <<TgtStateCode(TGTSTATE_RUNNING)>>
          /\ log[k].t = "dispatch"

\* A continue succeeded, and the peer has sent all it sends and the stub read it.
ContinuedAndQuiet ==
    /\ \E i \in DOMAIN log : IsContinued(log[i])
    /\ hx.B = <<>>
    /\ inStream = <<>>

\* An unsolicited S05 was sent after the last successful continue.
NotifiedSinceContinue ==
    \E j \in DOMAIN log :
        /\ IsNotify(log[j])
        /\ \A i \in (j + 1) .. Len(log) : ~IsContinued(log[i])

\* C13: once a continue succeeded and the target has stopped, the unsolicited
\* S05 is written in the end without another byte from the peer, be it that Run
\* returns try-again and is called again or that it waits in poll (unless the
\* environment fails a call).
C13_StopReachesPeer ==
    (ContinuedAndQuiet /\ tgtState = TGTSTATE_STOPPED)
        ~> (NotifiedSinceContinue \/ faults < MaxFaults)

-----------------------------------------------------------------------------
(* Interrupt byte *)

\* The history holds a target stop directly followed by the four writes of the
\* stop reply $S05#B8.
StopAnswered(l) ==
    \E i \in DOMAIN l :
        /\ l[i] = Ev("tgtStop", <<>>)
        /\ i + 4 <= Len(l)
        /\ SubSeq(l, i + 1, i + 4) =
               <<Ev("write", <<36>>), Ev("write", <<83, 48, 53>>),
                 Ev("write", <<35>>), Ev("write", <<66, 56>>)>>

\* C14: a read taken in WAIT_FOR_START that begins with the interrupt byte, a '$'
\* following in the same read or not, makes the stub stop the target exactly once
\* and send S05, and the frame behind the byte is acknowledged and dispatched as
\* without it.
C14_InterruptInDiscardRegion ==
    ( /\ PlainRunDone
      /\ nReads = 1
      /\ wire # <<>>
      /\ wire[1] = GDBSTUB_OOB_INTERRUPT )
    => /\ Len(EventsOf(log, {"tgtStop"})) = 1
       /\ StopAnswered(log)
       /\ AckBytes(log) = WireAcks(wire)
       /\ DispatchBodies(log) = WireValidBodies(wire)

-----------------------------------------------------------------------------
(* Dispatcher claims *)

\* The events of the history a reply frame with this body leaves: four writes.
FrameEvents(body) ==
    <<Ev("write", <<GDBSTUB_PKT_START>>), Ev("write", body),
      Ev("write", <<GDBSTUB_PKT_END>>), Ev("write", ReplyChkSumChars(U8Sum(body)))>>

\* The events the dispatcher left for the packet dispatched at event i: those up
\* to the next read, acknowledgement, dispatch, notification, reset or poll.
HandlerEvents(l, i) ==
    LET J == {j \in (i + 1) .. Len(l) :
                 l[j].t \in {"read", "ack", "dispatch", "notify", "reset", "pollfail"}}
        end == IF J = {} THEN Len(l) ELSE (CHOOSE j \in J : \A k \in J : j <= k) - 1
    IN  SubSeq(l, i + 1, end)

IsFrameStart(e) == e = Ev("write", <<GDBSTUB_PKT_START>>)

\* The reply frames begun for the packet dispatched at event i.
ReplyFrames(l, i) == Len(SelectSeq(HandlerEvents(l, i), IsFrameStart))

\* The packets that get no reply: c, vCont;c, k, and R once '!' was dispatched.
NoReplyCmd(l, i) ==
    \/ l[i].b \in {<<99>>, <<118, 67, 111, 110, 116, 59, 99>>, <<107>>}
    \/ /\ l[i].b = <<82>>
       /\ \E j \in 1 .. (i - 1) : l[j] = Ev("dispatch", <<33>>)

\* C15: with every adapter and transport call succeeding, the dispatcher writes
\* at most one reply frame for a checksum-valid packet, and exactly one unless
\* the packet is c, vCont;c, k, or R in extended mode.
C15_OneReplyPerPacket ==
    faults = MaxFaults =>
        \A i \in DOMAIN log :
            log[i].t = "dispatch" =>
                /\ ReplyFrames(log, i) <= 1
                /\ ~NoReplyCmd(log, i) => ReplyFrames(log, i) = 1

IsRunCtlFail(e) == e.t \in {"tgtStep", "tgtCont", "tgtStop"} /\ e.b = <<TgtErr>>

\* The body of the E NN reply for a status code.
ErrBody(rc) ==
    <<69, gdbStubCtxHexToChr(((0 - rc) % U8) \div 16),
          gdbStubCtxHexToChr(((0 - rc) % U8) % 16)>>

\* C16: when the step, continue or stop call made for s, c or a vCont action
\* fails, the E NN reply with that status follows the call and Run does not
\* return the failure.
C16_RunControlFailureReported ==
    \A i \in DOMAIN log :
        IsRunCtlFail(log[i]) =>
            /\ i + 4 <= Len(log)
            /\ SubSeq(log, i + 1, i + 4) = FrameEvents(ErrBody(TgtErr))
            /\ ~(pc = "idle" /\ rcRun = TgtErr)

IsReplyWriteFail(e) == e.t = "writefail" /\ e.b \notin {<<43>>, <<45>>}

\* C17: a step in which a transport write of a reply fails ends with Run having
\* returned that failure: nothing more is read or written in that call.
C17_WriteFailureEndsRun ==
    [][ ( /\ Len(log') > Len(log)
          /\ IsReplyWriteFail(log'[Len(log')]) )
        => (pc' = "idle" /\ rcRun' = GDBSTUB_ERR_PEER_DISCONNECTED) ]_vars

\* The queries without their separator.
NoSepQueries ==
    { <<113, 83, 117, 112, 112, 111, 114, 116, 101, 100>>,
      <<113, 88, 102, 101, 114, 58, 102, 101, 97, 116, 117, 114, 101, 115, 58, 114, 101, 97, 100>>,
      <<113, 82, 99, 109, 100>> }

\* C19: a query without its separator is answered with an E NN reply, and Run
\* does not return the protocol violation to its caller.
C19_MissingSeparatorReported ==
    faults = MaxFaults =>
        \A i \in DOMAIN log :
            (log[i].t = "dispatch" /\ log[i].b \in NoSepQueries) =>
                /\ \E uErr \in 0 .. (U8 - 1) :
                       HandlerEvents(log, i) =
                           FrameEvents(<<69, gdbStubCtxHexToChr(uErr \div 16),
                                             gdbStubCtxHexToChr(uErr % 16)>>)
                /\ ~(pc = "idle" /\ rcRun = GDBSTUB_ERR_PROTOCOL_VIOLATION)

\* The G packet with the hex of the register file of the model.
GPktBody == <<71>> \o HexChars(RegFile)

\* C20: a G packet with the hex of the whole register file makes one register
\* write for all registers (the index vector 0 .. cRegs-1) with the decoded
\* bytes, and is answered OK.
C20_WriteAllRegisters ==
    faults = MaxFaults =>
        \A i \in DOMAIN log :
            (log[i].t = "dispatch" /\ log[i].b = GPktBody) =>
                HandlerEvents(log, i) =
                    <<Ev("tgtRegsWrite", <<Len(paidxRegs)>> \o paidxRegs \o RegFile)>>
                    \o FrameEvents(<<79, 75>>)

-----------------------------------------------------------------------------
(* Run without poll *)

\* What the framer holds of a packet under reception.
FramerOf(T) == <<T.enmState, T.offPktBuf, T.cbPkt, T.cbChksumRecvLeft, T.pbPktBuf>>

\* C18: without a poll callback Run terminates.  A turn of its loop that does not
\* end Run consumes input; Run returns try-again only when peek reports 0 bytes,
\* and that return leaves the receive state, the write offset and the buffered
\* bytes as they are; once nothing is left to arrive, Run does return try-again.
C18_TryAgainWithoutPoll ==
    /\ [][ (pc = "run" /\ pc' = "run" /\ log' # log)
           => Len(inStream') < Len(inStream) ]_vars
    /\ [][ (pc = "run" /\ pc' = "idle" /\ rcRun' = GDBSTUB_INF_TRY_AGAIN)
           => /\ inStream = <<>>
              /\ FramerOf(pThis') = FramerOf(pThis)
              /\ out' = out ]_vars
    /\ (pc = "run" /\ inStream = <<>> /\ hx.B = <<>>)
           ~> (pc = "idle" /\ rcRun = GDBSTUB_INF_TRY_AGAIN)

\* Run has returned try-again in the middle of a packet: '$' and part of the body
\* are buffered.
C18_Witness ==
    /\ pc = "idle"
    /\ rcRun = GDBSTUB_INF_TRY_AGAIN
    /\ pThis.enmState = RECEIVE_BODY
    /\ pThis.offPktBuf > 1
    /\ Stored(pThis, 0) = GDBSTUB_PKT_START


-----------------------------------------------------------------------------
(* Memory read *)

\* Address and length of an m packet body "m<addr>,<len>".
MemReqOf(body) ==
    LET a == ParseHexSeq(Tail(body), 44, 0, 0)
        l == ParseHexSeq(From(body, a.n + 2), GDBSTUB_PKT_END, 0, 0)
    IN  [addr |-> a.uVal, len |-> l.uVal]

IsMemPkt(b) == Len(b) > 1 /\ b[1] = 109 /\ SeqMemchr(b, 44, Len(b)) > 0

IsWriteEv(e) == e.t = "write"

IsMemReadEv(e) == e.t = "tgtMemRead"

\* The target reads of a request: chunk after chunk, each at the address that
\* follows the chunk before.
MemReadChunks(addr, len) ==
    [j \in 1 .. ((len + cbMemReadChunk - 1) \div cbMemReadChunk) |->
        Ev("tgtMemRead", <<addr + (j - 1) * cbMemReadChunk,
                           Min(cbMemReadChunk, len - (j - 1) * cbMemReadChunk)>>)]

\* C21: an m packet for len >= 1 bytes whose target reads succeed is answered
\* with one frame of exactly 2*len hex characters, the bytes addr .. addr+len-1
\* of the target in order, and every chunk is read from the address that
\* follows the chunk before.
C21_ReadMemoryReply ==
    faults = MaxFaults =>
        \A i \in DOMAIN log :
            (log[i].t = "dispatch" /\ IsMemPkt(log[i].b)
             /\ MemReqOf(log[i].b).len >= 1) =>
                LET r == MemReqOf(log[i].b)
                    h == HandlerEvents(log, i)
                IN  (Len(SelectSeq(h, IsWriteEv)) >= 4) =>
                        /\ SelectSeq(h, IsWriteEv) =
                               FrameEvents(HexChars(
                                   [k \in 1 .. r.len |-> TgtMem(r.addr + k - 1)]))
                        /\ SelectSeq(h, IsMemReadEv) = MemReadChunks(r.addr, r.len)

\* The same for requests that fit one chunk.
C21_OneChunk ==
    faults = MaxFaults =>
        \A i \in DOMAIN log :
            (log[i].t = "dispatch" /\ IsMemPkt(log[i].b)
             /\ MemReqOf(log[i].b).len >= 1
             /\ MemReqOf(log[i].b).len <= cbMemReadChunk) =>
                LET r == MemReqOf(log[i].b)
                    h == HandlerEvents(log, i)
                IN  (Len(SelectSeq(h, IsWriteEv)) >= 4) =>
                        /\ SelectSeq(h, IsWriteEv) =
                               FrameEvents(HexChars(
                                   [k \in 1 .. r.len |-> TgtMem(r.addr + k - 1)]))
                        /\ SelectSeq(h, IsMemReadEv) = MemReadChunks(r.addr, r.len)


-----------------------------------------------------------------------------
(* Single register write *)

\* Register index and data characters of a P packet body "P<n>=<data>".
RegWriteReqOf(body) ==
    LET n == ParseHexSeq(Tail(body), 61, 0, 0)
    IN  [idxReg |-> n.uVal, data |-> From(body, n.n + 2)]

\* A P packet for a register of the target whose data is the hex of the full
\* width of that register.
IsFullWidthRegWrite(b) ==
    /\ Len(b) > 1 /\ b[1] = 80 /\ SeqMemchr(b, 61, Len(b)) > 0
    /\ LET r == RegWriteReqOf(b)
       IN  /\ r.idxReg < Len(paRegs)
           /\ Len(r.data) = 2 * (paRegs[r.idxReg + 1].cRegBits \div 8)

\* C22: a P packet for register n below the register count, with the hex of the
\* register's full width as data, makes exactly one register write for index n
\* with all decoded bytes and is answered OK.
C22_WriteSingleRegister ==
    faults = MaxFaults =>
        \A i \in DOMAIN log :
            (log[i].t = "dispatch" /\ IsFullWidthRegWrite(log[i].b)) =>
                LET r == RegWriteReqOf(log[i].b)
                    bytes == gdbStubCtxParseHexStringAsByteBuf(
                                 r.data, Len(r.data) \div 2).dst
                IN  HandlerEvents(log, i) =
                        <<Ev("tgtRegsWrite", <<1, r.idxReg>> \o bytes)>>
                        \o FrameEvents(<<79, 75>>)


-----------------------------------------------------------------------------
(* Tracepoints *)

\* The type of a Z or z packet body "Z<type>,<addr>,<kind>".
TpTypeOf(body) == ParseHexSeq(Tail(body), 44, 0, 0).uVal

IsTpPkt(b) == Len(b) > 1 /\ b[1] \in {90, 122} /\ SeqMemchr(b, 44, Len(b)) > 0

IsTpCall(e) == e.t \in {"tgtTpSet", "tgtTpClear"}

\* The writes of a reply: those of its frame, without a write for an empty body.
ReplyEvents(body) ==
    IF body = <<>>
    THEN <<Ev("write", <<GDBSTUB_PKT_START>>), Ev("write", <<GDBSTUB_PKT_END>>),
           Ev("write", <<48, 48>>)>>
    ELSE FrameEvents(body)

IsWriteFail(e) == e.t = "writefail"

\* The set or clear operation a Z or z packet needs is supplied by the adapter.
TpSupplied(b) ==
    IF b[1] = 90 THEN pThis.pIf.pfnTgtTpSet ELSE pThis.pIf.pfnTgtTpClear

\* C23: a Z or z packet with a type in 0 .. 4 is answered OK when the adapter
\* call succeeds, with the empty reply when the adapter has no such operation
\* or the call returns not-supported, and with E NN of the status when the call
\* fails otherwise; with a type outside 0 .. 4 the answer is E01 and no adapter
\* call is made.
C23_TracepointReplies ==
    \A i \in DOMAIN log :
        (log[i].t = "dispatch" /\ IsTpPkt(log[i].b)) =>
            LET h == HandlerEvents(log, i)
                calls == SelectSeq(h, IsTpCall)
                fails == SelectSeq(h, LAMBDA e : e.t = "tgtFailed")
                writes == SelectSeq(h, IsWriteEv)
                reply(body) == SelectSeq(h, IsWriteFail) = <<>> => writes = ReplyEvents(body)
            IN  IF TpTypeOf(log[i].b) \in 0 .. 4
                THEN IF ~TpSupplied(log[i].b)
                     THEN calls = <<>> /\ reply(<<>>)
                     ELSE /\ Len(calls) = 1
                          /\ IF fails = <<>> THEN reply(<<79, 75>>)
                             ELSE IF fails[1].b[1] = GDBSTUB_ERR_NOT_SUPPORTED
                                  THEN reply(<<>>)
                                  ELSE reply(ErrBody(fails[1].b[1]))
                ELSE /\ calls = <<>>
                     /\ reply(ErrBody(GDBSTUB_ERR_INVALID_PARAMETER))
                     /\ ErrBody(GDBSTUB_ERR_INVALID_PARAMETER) = <<69, 48, 49>>

\* Both answers that come without an adapter call have been given in one
\* session: E01 for a type out of range, and the empty reply of an adapter that
\* lacks the operation.
C23_Witness ==
    \E j, k \in DOMAIN log :
        /\ log[j].t = "dispatch" /\ IsTpPkt(log[j].b) /\ TpTypeOf(log[j].b) > 4
        /\ HandlerEvents(log, j) = FrameEvents(<<69, 48, 49>>)
        /\ log[k].t = "dispatch" /\ IsTpPkt(log[k].b) /\ TpTypeOf(log[k].b) \in 0 .. 4
        /\ ~TpSupplied(log[k].b)
        /\ HandlerEvents(log, k) = ReplyEvents(<<>>)


-----------------------------------------------------------------------------
(* Optional adapter operations *)

\* The packet needs an operation the adapter of this session did not supply.
NeedsAbsentOp(b) ==
    /\ Len(b) >= 1
    /\ \/ b[1] \in {33, 82} /\ ~pThis.pIf.pfnTgtRestart
       \/ b[1] = 107 /\ ~pThis.pIf.pfnTgtKill
       \/ IsTpPkt(b) /\ TpTypeOf(b) \in 0 .. 4 /\ ~TpSupplied(b)

IsOptCall(e) ==
    e.t \in {"tgtRestart", "tgtKill", "tgtTpSet", "tgtTpClear", "nullCall"}

\* C24: a packet that needs an optional operation the adapter did not supply
\* (!, R, k, Z, z) makes no call of it and is answered with the empty reply, and
\* nothing undefined has happened to the session.
C24_AbsentOperationNotCalled ==
    \A i \in DOMAIN log :
        (log[i].t = "dispatch" /\ NeedsAbsentOp(log[i].b)) =>
            LET h == HandlerEvents(log, i)
            IN  /\ SelectSeq(h, IsOptCall) = <<>>
                /\ SelectSeq(h, IsWriteFail) = <<>>
                       => SelectSeq(h, IsWriteEv) = ReplyEvents(<<>>)
                /\ ~ub

\* The same for the packets other than k.
C24_ExceptKill ==
    \A i \in DOMAIN log :
        (log[i].t = "dispatch" /\ NeedsAbsentOp(log[i].b) /\ log[i].b[1] # 107) =>
            LET h == HandlerEvents(log, i)
            IN  /\ SelectSeq(h, IsOptCall) = <<>>
                /\ SelectSeq(h, IsWriteFail) = <<>>
                       => SelectSeq(h, IsWriteEv) = ReplyEvents(<<>>)


-----------------------------------------------------------------------------
(* Extended mode *)

\* The '!' packet dispatched at event i was answered OK.
AnsweredOk(l, i) ==
    /\ l[i] = Ev("dispatch", <<33>>)
    /\ SelectSeq(HandlerEvents(l, i), IsWriteEv) = FrameEvents(<<79, 75>>)

IsRestartCall(e) == e.t = "tgtRestart" \/ e = Ev("nullCall", <<82>>)

\* Restart is called only for an R packet that follows a '!' answered OK.
RestartOnlyAfterOk ==
    \A j \in DOMAIN log :
        IsRestartCall(log[j]) =>
            /\ j > 1 /\ log[j - 1] = Ev("dispatch", <<82>>)
            /\ \E i \in 1 .. (j - 2) : AnsweredOk(log, i)

\* An R packet before any '!' was answered OK: empty reply, no restart.
RestartRefusedBefore ==
    \A j \in DOMAIN log :
        (log[j] = Ev("dispatch", <<82>>)
         /\ \A i \in 1 .. (j - 1) : log[i] # Ev("dispatch", <<33>>)) =>
            LET h == HandlerEvents(log, j)
            IN  /\ SelectSeq(h, IsRestartCall) = <<>>
                /\ SelectSeq(h, IsWriteFail) = <<>>
                       => SelectSeq(h, IsWriteEv) = ReplyEvents(<<>>)

-----------------------------------------------------------------------------
(* Feature negotiation *)

\* What the history holds after the first read of the session.
AfterFirstRead(l) ==
    LET I == {i \in DOMAIN l : l[i].t = "read"}
    IN  IF I = {} THEN <<>>
        ELSE SubSeq(l, (CHOOSE i \in I : \A j \in I : i <= j) + 1, Len(l))

HasRead(l) == \E i \in DOMAIN l : l[i].t = "read"

\* The stub acknowledges with '+', dispatches "qSupported:" and writes one reply
\* frame with the body "qXfer:features:read+".
AckedAndAnswered(l) ==
    AfterFirstRead(l) =
        <<Ev("ack", <<43>>), Ev("dispatch", QSupportedBody)>>
        \o FrameEvents(QSupportedReply)

\* C26 as stated: given the bytes $qSupported:#37 on a freshly created session,
\* the stub writes '+' and then one reply frame with the body
\* "qXfer:features:read+".
C26_AsStated ==
    (wire = QSupportedStated /\ HasRead(log) /\ faults = MaxFaults) =>
        AckedAndAnswered(log)

\* C26: given the bytes $qSupported:#71, the frame whose checksum is that of
\* "qSupported:", on a freshly created session, the stub writes '+' and then one
\* reply frame with the body "qXfer:features:read+"; given $qSupported:#37 it
\* writes '-' and nothing else.
C26_QSupportedReply ==
    (HasRead(log) /\ faults = MaxFaults) =>
        /\ wire = Frame(QSupportedBody) => AckedAndAnswered(log)
        /\ wire = QSupportedStated => AfterFirstRead(log) = <<Ev("ack", <<45>>)>>

\* The frame with the right checksum has been read and answered.
C26_Witness ==
    /\ wire = Frame(QSupportedBody)
    /\ AckedAndAnswered(log)
    /\ pc = "idle"


-----------------------------------------------------------------------------
(* Reading the target description *)

IsXferRead(b) ==
    /\ Len(b) > Len(XferReadPrefix)
    /\ SubSeq(b, 1, Len(XferReadPrefix)) = XferReadPrefix

\* Offset and length of a read request.
XferReqOf(b) ==
    LET args == From(b, Len(XferReadPrefix))
        off == ParseHexSeq(args, 44, 0, 0)
        len == ParseHexSeq(From(args, off.n + 1), GDBSTUB_PKT_END, 0, 0)
    IN  [offRead |-> off.uVal, cbRead |-> len.uVal]

\* The body of the reply frame among the events h, <<>> when there is none.
ReplyBody(h) ==
    LET w == SelectSeq(h, IsWriteEv)
    IN  IF Len(w) >= 4 THEN w[2].b ELSE <<>>

\* C27: the reply to a read of target.xml within the description starts with
\* 'l' exactly when the slice reaches the end of the cached description (offset
\* plus length at or past its size) and with 'm' exactly when at least one byte
\* remains after it.
C27_LastChunkMarker ==
    faults = MaxFaults =>
        \A i \in DOMAIN log :
            (log[i].t = "dispatch" /\ IsXferRead(log[i].b)
             /\ XferReqOf(log[i].b).offRead <= XmlDescLen(paRegs)) =>
                LET r == XferReqOf(log[i].b)
                    body == ReplyBody(HandlerEvents(log, i))
                    fEnd == r.offRead + r.cbRead >= XmlDescLen(paRegs)
                IN  /\ body # <<>>
                    /\ body[1] = (IF fEnd THEN 108 ELSE 109)

\* The same for the slices that do not end exactly at the end of the description.
C27_ExceptExactEnd ==
    faults = MaxFaults =>
        \A i \in DOMAIN log :
            (log[i].t = "dispatch" /\ IsXferRead(log[i].b)
             /\ XferReqOf(log[i].b).offRead <= XmlDescLen(paRegs)
             /\ ~(/\ XferReqOf(log[i].b).offRead < XmlDescLen(paRegs)
                  /\ XferReqOf(log[i].b).offRead + XferReqOf(log[i].b).cbRead
                         = XmlDescLen(paRegs))) =>
                LET r == XferReqOf(log[i].b)
                    body == ReplyBody(HandlerEvents(log, i))
                    fEnd == r.offRead + r.cbRead >= XmlDescLen(paRegs)
                IN  /\ body # <<>>
                    /\ body[1] = (IF fEnd THEN 108 ELSE 109)


-----------------------------------------------------------------------------
(* Error replies *)

\* The events of h that come before its first write.
BeforeReply(h) ==
    LET W == {k \in DOMAIN h : h[k].t \in {"write", "writefail"}}
    IN  IF W = {} THEN h ELSE SubSeq(h, 1, (CHOOSE k \in W : \A j \in W : k <= j) - 1)

IsAllocFail(e) == e.t = "allocfail"

IsErrReply(body) == Len(body) = 3 /\ body[1] = 69

\* C28: an E NN reply carries the low byte of the negated status code that
\* caused it.  For the reads of target.xml: E02 when an allocation failed
\* (no-memory, -2), E07 when the offset lies beyond the description (protocol
\* violation, -7); and no other request of these is answered E NN.
C28_ErrorReplyCode ==
    \A i \in DOMAIN log :
        (log[i].t = "dispatch" /\ IsXferRead(log[i].b)) =>
            LET h == HandlerEvents(log, i)
                body == ReplyBody(h)
                fNoMem == SelectSeq(BeforeReply(h), IsAllocFail) # <<>>
                fBeyond == XferReqOf(log[i].b).offRead > XmlDescLen(paRegs)
            IN  body # <<>> =>
                    IF fNoMem THEN body = ErrBody(GDBSTUB_ERR_NO_MEMORY)
                    ELSE IF fBeyond THEN body = ErrBody(GDBSTUB_ERR_PROTOCOL_VIOLATION)
                    ELSE ~IsErrReply(body)

\* The same for the one error path that goes through gdbStubCtxReplySendErrSts:
\* the allocation of the description itself fails.
C28_DescAllocFailure ==
    \A i \in DOMAIN log :
        (log[i].t = "dispatch" /\ IsXferRead(log[i].b)) =>
            LET h == HandlerEvents(log, i)
                body == ReplyBody(h)
            IN  (body # <<>> /\ Len(h) > 0 /\ h[1] = Ev("allocfail", <<XmlDescLen(paRegs)>>))
                    => body = ErrBody(GDBSTUB_ERR_NO_MEMORY)


-----------------------------------------------------------------------------
(* Custom commands *)

\* "qRcmd,"
RcmdPrefix == <<113, 82, 99, 109, 100, 44>>

IsRcmd(b) ==
    /\ Len(b) > Len(RcmdPrefix)
    /\ SubSeq(b, 1, Len(RcmdPrefix)) = RcmdPrefix
    /\ (Len(b) - Len(RcmdPrefix)) % 2 = 0

\* The text a qRcmd packet carries, its name and its arguments.
RcmdTextOf(b) ==
    LET hex == From(b, Len(RcmdPrefix))
        text == gdbStubCtxParseHexStringAsByteBuf(hex, Len(hex) \div 2).dst
        sp == SeqMemchr(text, 32, Len(text))
    IN  [name |-> IF sp < 0 THEN text ELSE SubSeq(text, 1, sp),
         fArgs |-> sp >= 0,
         args |-> IF sp < 0 THEN <<>> ELSE From(text, sp + 1)]

\* C29: a qRcmd packet whose hex decodes to the name of a registered command,
\* with or without a space and arguments after it, makes exactly one call of
\* that command's callback with the text after the first space as arguments,
\* and is answered with the hex of the output, or OK when there was none; a name
\* that is not in the table is answered E09.
C29_CustomCommand ==
    faults = MaxFaults =>
        \A i \in DOMAIN log :
            (log[i].t = "dispatch" /\ IsRcmd(log[i].b)) =>
                LET t == RcmdTextOf(log[i].b)
                    h == HandlerEvents(log, i)
                    I == {k \in DOMAIN paCmds : paCmds[k].pszCmd = t.name}
                    k == CHOOSE k \in I : TRUE
                IN  IF I = {}
                    THEN h = FrameEvents(ErrBody(GDBSTUB_ERR_NOT_FOUND))
                    ELSE /\ h[1] = Ev("cmd", <<k, IF t.fArgs THEN 1 ELSE 0>> \o t.args)
                         /\ Len(SelectSeq(h, LAMBDA e : e.t = "cmd")) = 1
                         /\ SelectSeq(h, IsWriteEv) =
                                (IF paCmds[k].out = <<>> THEN FrameEvents(<<79, 75>>)
                                 ELSE FrameEvents(HexChars(paCmds[k].out)))


-----------------------------------------------------------------------------
(* Destroy *)

\* How often block b was handed to pfnMemFree by GDBStubCtxDestroy.
Released(l, b) == Len(SelectSeq(l, LAMBDA e : e = Ev("release", <<b>>)))

\* C30: after GDBStubCtxDestroy every block the session got from the allocator
\* of the adapter and still held (the context, the packet buffer, the register
\* scratch with its index vector, the cached target description) has been
\* passed to pfnMemFree exactly once, and no other block has.
C30_DestroyFreesEveryBlock ==
    pc = "destroyed" =>
        \A b \in {Blocks.pThis, Blocks.pbPktBuf, Blocks.pvRegsScratch,
                  Blocks.pbTgtXmlDesc} :
            Released(log, b) = (IF b \in Allocated(pThis) THEN 1 ELSE 0)

\* The same for the context and the packet buffer alone.
C30_ContextAndPacketBuffer ==
    pc = "destroyed" =>
        \A b \in {Blocks.pThis, Blocks.pbPktBuf} :
            Released(log, b) = (IF b \in Allocated(pThis) THEN 1 ELSE 0)

-----------------------------------------------------------------------------
(* Create *)

\* The blocks named by the events of kind t.
BlocksOf(l, t) == {l[i].b[1] : i \in {j \in DOMAIN l : l[j].t = t}}

HasEv(l, t) == \E i \in DOMAIN l : l[i].t = t

\* C31: GDBStubCtxCreate returns invalid-parameter without calling the
\* allocator when the handle pointer or one of the two adapter tables is null;
\* it returns out-of-memory when one of its two allocations fails, and then
\* every block it had allocated is freed and the handle is not written.  With
\* three pointers and two blocks it returns success and writes the handle.
C31_CreateFailures ==
    pc # "new" =>
        LET fNull == \E k \in 1 .. 3 : log[1].b[k] = 0
            fNoMem == HasEv(log, "obtainfail")
        IN  /\ log[1].t = "create"
            /\ fNull =>
                /\ hx.rc = GDBSTUB_ERR_INVALID_PARAMETER
                /\ ~HasEv(log, "obtain") /\ ~fNoMem /\ ~HasEv(log, "handle")
            /\ (~fNull /\ fNoMem) =>
                /\ hx.rc = GDBSTUB_ERR_NO_MEMORY
                /\ BlocksOf(log, "obtain") \subseteq BlocksOf(log, "release")
                /\ ~HasEv(log, "handle")
                /\ pc = "failed"
            /\ (~fNull /\ ~fNoMem) =>
                /\ hx.rc = GDBSTUB_INF_SUCCESS
                /\ HasEv(log, "handle")
                /\ {Blocks.pThis, Blocks.pvRegsScratch} \subseteq BlocksOf(log, "obtain")

\* The second allocation failed: the context was allocated and freed again.
C31_Witness ==
    /\ pc = "failed"
    /\ hx.rc = GDBSTUB_ERR_NO_MEMORY
    /\ BlocksOf(log, "obtain") = {Blocks.pThis}
    /\ BlocksOf(log, "release") = {Blocks.pThis}
    /\ BlocksOf(log, "obtainfail") = {Blocks.pvRegsScratch}

-----------------------------------------------------------------------------
(* The framer after a packet *)

FramerFields(T) == <<T.enmState, T.offPktBuf, T.cbPkt, T.cbChksumRecvLeft>>

\* The step dispatched a packet or answered a frame with '-'.
PacketSettled ==
    \E i \in (Len(log) + 1) .. Len(log') :
        \/ log'[i].t = "dispatch"
        \/ log'[i].t \in {"ack", "writefail"} /\ log'[i].b = <<45>>

\* C32: after a read whose frame was dispatched, whatever the target adapter
\* and the transport returned to the dispatcher, and after a read whose frame
\* was answered with '-', the framer is in WAIT_FOR_START with write offset 0,
\* body length 0 and 2 checksum characters outstanding.
C32_FramerResetAfterPacket ==
    [][PacketSettled => FramerFields(pThis') = <<WAIT_FOR_START, 0, 0, 2>>]_vars

\* An "s" packet whose step call failed was dispatched: Run has returned and
\* the framer is in its initial state, the buffer kept.
C32_Witness ==
    /\ \E i \in DOMAIN log : log[i] = Ev("dispatch", <<115>>)
    /\ IsRunCtlFail(log[Len(log)])
    /\ FramerFields(pThis) = <<WAIT_FOR_START, 0, 0, 2>>
    /\ pThis.cbPktBufMax > 0

-----------------------------------------------------------------------------
(* One stop, one stop reply *)

\* The target was stopped at event i on the peer's request (interrupt byte or
\* vCont;t) and the stop reply $S05#B8 written.
StopRepliedAt(l, i) ==
    /\ l[i] = Ev("tgtStop", <<>>)
    /\ i + 4 <= Len(l)
    /\ SubSeq(l, i + 1, i + 4) = FrameEvents(<<83, 48, 53>>)

\* C33: once a stop requested by the peer was answered with S05, no entry of
\* Run sends an unsolicited S05 before the target was continued again: the
\* target is stopped all that time, it is the same stop.
C33_OneStopReplyPerStop ==
    (~ub /\ faults = MaxFaults) =>
        \A i \in DOMAIN log :
            StopRepliedAt(log, i) =>
                \A j \in (i + 1) .. Len(log) :
                    IsNotify(log[j]) =>
                        \E k \in (i + 1) .. (j - 1) : IsContinued(log[k])

-----------------------------------------------------------------------------
(* The target-description feature *)

\* "xmlRegisters="
XmlRegsKey == GdbFeatName \o <<61>>

IsQSupported(b) ==
    Len(b) >= Len(QSupportedBody) /\ SubSeq(b, 1, Len(QSupportedBody)) = QSupportedBody

\* The value of the xmlRegisters feature of a qSupported packet: what stands
\* between "xmlRegisters=" and the next ';' or the end; <<>> without the feature.
ArchListOf(b) ==
    LET K == {k \in (Len(QSupportedBody) + 1) .. (Len(b) - Len(XmlRegsKey) + 1) :
                 /\ SubSeq(b, k, k + Len(XmlRegsKey) - 1) = XmlRegsKey
                 /\ b[k - 1] \in {58, 59}}
        k0 == CHOOSE k \in K : \A j \in K : k <= j
        start == k0 + Len(XmlRegsKey)
        E == {e \in start .. Len(b) : b[e] = 59}
        end == IF E = {} THEN Len(b) ELSE (CHOOSE e \in E : \A j \in E : e <= j) - 1
    IN  IF K = {} THEN <<>> ELSE SubSeq(b, start, end)

\* The packet is a qSupported whose xmlRegisters list has the target's
\* architecture as one of its comma-separated entries.
NamesArch(b) ==
    /\ IsQSupported(b)
    /\ LET v == ArchListOf(b)
       IN  \E i \in 1 .. Len(v) : \E j \in i .. Len(v) :
               /\ SubSeq(v, i, j) = GdbArchName
               /\ i = 1 \/ v[i - 1] = 44
               /\ j = Len(v) \/ v[j + 1] = 44

\* C34: as long as no qSupported packet whose xmlRegisters list names the
\* target's architecture was dispatched, the reply to a qSupported packet is
\* not "qXfer:features:read+" and a read of target.xml gets the empty reply.
C34_FeatureBitFromQSupported ==
    (~ub /\ faults = MaxFaults) =>
        \A i \in DOMAIN log :
            (/\ log[i].t = "dispatch"
             /\ \A j \in 1 .. i : log[j].t = "dispatch" => ~NamesArch(log[j].b)) =>
                LET h == HandlerEvents(log, i)
                IN  /\ IsQSupported(log[i].b) => ReplyBody(h) # QSupportedReply
                    /\ IsXferRead(log[i].b) =>
                           SelectSeq(h, IsWriteEv) = ReplyEvents(<<>>)

-----------------------------------------------------------------------------
(* Length and content of the target description *)

\* C36: for every register table the length the builder computes upfront
\* (cbTgtXmlDesc) is the number of bytes it then writes into the block.
C36_LengthEqualsWritten ==
    hx.pc = "built" => Len(hx.txt) = hx.rc

\* What holds instead: the builder writes two bytes less than it allocated
\* (the NUL of the header and of the footer are counted and not written), so
\* no write goes past the block and its last two bytes are never written.
C36_TwoBytesShort ==
    hx.pc = "built" => Len(hx.txt) = hx.rc - 2

-----------------------------------------------------------------------------
(* Reading the description slice by slice *)

\* The requests a reader of slices of cb bytes needs at most: one per slice
\* begun, and one more when the last slice ends exactly at the end.
MaxRequests(cb) == (XmlDescLen(paRegs) + cb - 1) \div cb + 1

\* The reader is never refused, asks a bounded number of times, and what it
\* has received so far is what the builder wrote, as far as that goes.
ReadsInOrder ==
    /\ hx.pc # "failed"
    /\ Len(hx.B) <= MaxRequests(hx.dec[1])
    /\ hx.pc = "ask" => hx.rc = Len(hx.txt)
    /\ \A i \in 1 .. Min(Len(hx.txt), Len(XmlDescText(paRegs))) :
           hx.txt[i] = XmlDescText(paRegs)[i]

\* C35: a peer that reads target.xml from offset 0 in slices of one length,
\* each at the offset the payloads have brought it to, gets a reply starting
\* with 'l' after a bounded number of requests, and the payloads together are
\* the description the builder wrote, no byte repeated, missing or added.
C35_ChunkedReadYieldsDescription ==
    faults = MaxFaults =>
        /\ ReadsInOrder
        /\ hx.pc = "done" => hx.txt = XmlDescText(paRegs)

\* What holds instead: the payloads together are the cbTgtXmlDesc bytes of the
\* block, the description followed by the two bytes the builder never wrote.
C35_UpToUnwrittenBytes ==
    faults = MaxFaults =>
        /\ ReadsInOrder
        /\ hx.pc = "done" =>
               /\ Len(hx.txt) = XmlDescLen(paRegs)
               /\ SubSeq(hx.txt, 1, Len(XmlDescText(paRegs))) = XmlDescText(paRegs)
               /\ ub

-----------------------------------------------------------------------------
(* The description is built once *)

\* Event k is the allocation of the description, the first thing the handler
\* of a read request does when there is none: t is "alloc" or "allocfail".
DescAllocAt(l, k, t) ==
    /\ k > 1
    /\ l[k] = Ev(t, <<XmlDescLen(paRegs)>>)
    /\ l[k - 1].t = "dispatch"
    /\ IsXferRead(l[k - 1].b)

\* At most one allocation of the description succeeded, and every read request
\* dispatched before one did begins with the allocation.
BuiltAtMostOnce ==
    /\ Cardinality({k \in DOMAIN log : DescAllocAt(log, k, "alloc")}) <= 1
    /\ \A i \in DOMAIN log :
           (/\ log[i].t = "dispatch"
            /\ IsXferRead(log[i].b)
            /\ \A k \in 1 .. i : ~DescAllocAt(log, k, "alloc")) =>
               /\ i < Len(log)
               /\ DescAllocAt(log, i + 1, "alloc") \/ DescAllocAt(log, i + 1, "allocfail")

\* C37: over the read requests of a session the description is allocated
\* successfully at most once; once it is there, pointer and length stay as
\* they are, up to and including Destroy; without it the length is 0, and the
\* next request after a failed build allocates anew.
C37_DescriptionBuiltOnce ==
    /\ []BuiltAtMostOnce
    /\ [](~pThis.pbTgtXmlDesc => pThis.cbTgtXmlDesc = 0)
    /\ [][pThis.pbTgtXmlDesc =>
             /\ pThis'.pbTgtXmlDesc
             /\ pThis'.cbTgtXmlDesc = pThis.cbTgtXmlDesc]_vars
    /\ [][(~pThis.pbTgtXmlDesc /\ pThis'.pbTgtXmlDesc) =>
             pThis'.cbTgtXmlDesc = XmlDescLen(paRegs)]_vars

\* The first request found no memory for the description, the second built
\* it, and the session was destroyed.
C37_Witness ==
    /\ pc = "destroyed"
    /\ pThis.pbTgtXmlDesc
    /\ pThis.cbTgtXmlDesc = XmlDescLen(paRegs)
    /\ \E k1 \in DOMAIN log : \E k2 \in DOMAIN log :
           /\ k1 < k2
           /\ DescAllocAt(log, k1, "allocfail")
           /\ DescAllocAt(log, k2, "alloc")

-----------------------------------------------------------------------------
(* Operands that are no numbers *)

\* The body has, behind its letter, a character that is neither a hex digit
\* nor one of the separators ',', ':', ';' and '='.
HasNonHexOperand(b) ==
    \E i \in 2 .. Len(b) :
        b[i] \notin {44, 58, 59, 61} /\ gdbStubCtxChrToHex(b[i]) = 255

IsTgtCallEv(e) ==
    e.t \in {"tgtMemRead", "tgtMemWrite", "tgtRegsRead", "tgtRegsWrite",
              "tgtTpSet", "tgtTpClear"}

\* C38: a packet of SpecOperand with a character that is no hex digit in a
\* numeric operand is answered with an E NN reply and makes the stub call no
\* operation of the target adapter.
C38_NonHexOperandRejected ==
    (~ub /\ faults = MaxFaults) =>
        \A i \in DOMAIN log :
            (log[i].t = "dispatch" /\ HasNonHexOperand(log[i].b)) =>
                LET h == HandlerEvents(log, i)
                IN  /\ \A k \in DOMAIN h : ~IsTgtCallEv(h[k])
                    /\ IsErrReply(ReplyBody(h))

-----------------------------------------------------------------------------
(* The checksum field *)

IsHexDigit(ch) ==
    \/ ch >= 48 /\ ch <= 57
    \/ ch >= 65 /\ ch <= 70
    \/ ch >= 97 /\ ch <= 102

\* The value of a hex digit of either case.
HexDigitVal(ch) ==
    IF ch <= 57 THEN ch - 48 ELSE IF ch <= 70 THEN ch - 55 ELSE ch - 87

\* Both checksum characters of the frame are hex digits and their value is the
\* modulo-256 sum of the body.
ChecksumOk(f) ==
    /\ IsHexDigit(f.chk[1])
    /\ IsHexDigit(f.chk[2])
    /\ HexDigitVal(f.chk[1]) * 16 + HexDigitVal(f.chk[2]) = SumBytes(f.body) % U8

\* C39: the k-th frame of the wire is acknowledged with '+' exactly when both
\* its checksum characters are hex digits, of either case, whose value is the
\* body sum modulo 256; with a character that is no hex digit in the checksum
\* field the answer is '-' whatever the body.
C39_AckOnlyForHexChecksum ==
    (~ub /\ faults = MaxFaults) =>
        LET A == AckBytes(log)
            F == WireFrames(wire)
        IN  /\ Len(A) <= Len(F)
            /\ \A k \in DOMAIN A :
                   A[k] = (IF ChecksumOk(F[k]) THEN 43 ELSE 45)

\* The same for the frames whose two checksum characters are hex digits.
C39_ForHexDigits ==
    (~ub /\ faults = MaxFaults) =>
        LET A == AckBytes(log)
            F == WireFrames(wire)
        IN  /\ Len(A) <= Len(F)
            /\ \A k \in DOMAIN A :
                   (IsHexDigit(F[k].chk[1]) /\ IsHexDigit(F[k].chk[2])) =>
                       A[k] = (IF ChecksumOk(F[k]) THEN 43 ELSE 45)

-----------------------------------------------------------------------------
(* The buffer while the checksum is awaited *)

\* '$' is at offset 0 of the packet buffer and '#' at offset offPktBuf - 1.
FrameInBuffer(T) ==
    /\ T.offPktBuf >= 2
    /\ Stored(T, 0) = GDBSTUB_PKT_START
    /\ Stored(T, T.offPktBuf - 1) = GDBSTUB_PKT_END

\* C40: whenever the framer is in RECEIVE_CHECKSUM the packet buffer holds '$'
\* at offset 0 and '#' at offset offPktBuf - 1, and cbPkt is the number of
\* bytes strictly between the two.
C40_ReceiveChecksumShape ==
    (~ub /\ pThis.enmState = RECEIVE_CHECKSUM) =>
        /\ FrameInBuffer(pThis)
        /\ pThis.cbPkt = pThis.offPktBuf - 2

\* What holds instead: cbPkt is offPktBuf - 1, the bytes between '$' and '#'
\* and the '$' itself.
C40_CountsStartCharacter ==
    (~ub /\ pThis.enmState = RECEIVE_CHECKSUM) =>
        /\ FrameInBuffer(pThis)
        /\ pThis.cbPkt = pThis.offPktBuf - 1

=============================================================================
